---- MODULE Spec2Model ----
(***************************************************************************)
(* FinMCP provider intelligence: the query classifier and the provider     *)
(* matcher of src/src/provider_intelligence.py over the registry           *)
(* API_CONFIGS of src/src/api_docs_server.py.                              *)
(*                                                                         *)
(* Texts that the code searches (queries, trigger keywords, response_time) *)
(* are sequences of one-character strings, so that lower-casing and        *)
(* substring search are computed as the code computes them.  Tags and ids  *)
(* are only compared for equality and are plain strings.                   *)
(*                                                                         *)
(* Scores are floats in the code, all sums of multiples of 0.05; here they *)
(* are integers counting hundredths (1.0 is 100, 0.1 is 10, 0.05 is 5).    *)
(***************************************************************************)
EXTENDS Integers, Sequences, FiniteSets, TLC

\* Queries are built from at most MaxWords fragments of QueryFragments.
MaxWords == 2

\* top_n ranges over 0..MaxTopN and the default DefaultTopN.
MaxTopN == 2

\* Probe registries hold at most MaxProviders provider records.
MaxProviders == 2

\* top_n: int = 5 in match_providers, and top_n=5 in create_provider_recommendation.
DefaultTopN == 5

----------------------------------------------------------------------------
(* Text helpers *)

UpperLetters ==
  <<"A", "B", "C", "D", "E", "F", "G", "H", "I", "J", "K", "L", "M",
    "N", "O", "P", "Q", "R", "S", "T", "U", "V", "W", "X", "Y", "Z">>

LowerLetters ==
  <<"a", "b", "c", "d", "e", "f", "g", "h", "i", "j", "k", "l", "m",
    "n", "o", "p", "q", "r", "s", "t", "u", "v", "w", "x", "y", "z">>

DigitChars == {"0", "1", "2", "3", "4", "5", "6", "7", "8", "9"}

ToSet(seq) == {seq[i] : i \in DOMAIN seq}

IsUpper(c) == c \in ToSet(UpperLetters)

\* A word character of the regular expression syntax (\w): letter, digit or underscore.
IsWordChar(c) == c \in ToSet(UpperLetters) \cup ToSet(LowerLetters) \cup DigitChars \cup {"_"}

\* str.lower() on one character: an upper-case ASCII letter becomes its
\* lower-case letter, every other character is unchanged.
LowerChar(c) ==
  IF IsUpper(c)
    THEN LowerLetters[CHOOSE i \in DOMAIN UpperLetters : UpperLetters[i] = c]
    ELSE c

\* A faulty variant of Lower: the text is not lower-cased.
LowerIdentity(text) == text

\* query.lower()
Lower(text) == [i \in DOMAIN text |-> LowerChar(text[i])]

\* A faulty variant of Contains: the keyword must occur as a whole word, with no
\* word character next to it on either side.
ContainsWholeWord(text, keyword) ==
  \E i \in 0..(Len(text) - Len(keyword)) :
    /\ \A j \in DOMAIN keyword : text[i + j] = keyword[j]
    /\ i = 0 \/ ~IsWordChar(text[i])
    /\ i + Len(keyword) = Len(text) \/ ~IsWordChar(text[i + Len(keyword) + 1])

\* keyword in text: the keyword occurs as a contiguous substring.
Contains(text, keyword) ==
  \E i \in 0..(Len(text) - Len(keyword)) :
    \A j \in DOMAIN keyword : text[i + j] = keyword[j]

\* sep.join(parts) for a list of atoms: the atoms with sep between neighbours.
RECURSIVE JoinAtoms(_, _)
JoinAtoms(parts, sep) ==
  IF parts = <<>> THEN <<>>
  ELSE IF Len(parts) = 1 THEN <<parts[1]>>
  ELSE <<parts[1], sep>> \o JoinAtoms(Tail(parts), sep)

\* sep.join(parts) for a list of texts, each a sequence of atoms.
RECURSIVE JoinTexts(_, _)
JoinTexts(parts, sep) ==
  IF parts = <<>> THEN <<>>
  ELSE IF Len(parts) = 1 THEN parts[1]
  ELSE parts[1] \o <<sep>> \o JoinTexts(Tail(parts), sep)

----------------------------------------------------------------------------
(* Static tables *)

\* QueryClassifier.data_type_keywords: data-type tag -> trigger substrings, in declared order.
data_type_keywords ==
  << [tag |-> "stocks", keywords |-> <<
        <<"s", "t", "o", "c", "k">>,   \* "stock"
        <<"s", "h", "a", "r", "e">>,   \* "share"
        <<"e", "q", "u", "i", "t", "y">>,   \* "equity"
        <<"t", "i", "c", "k", "e", "r">>,   \* "ticker"
        <<"s", "y", "m", "b", "o", "l">>,   \* "symbol"
        <<"p", "r", "i", "c", "e">>,   \* "price"
        <<"v", "o", "l", "u", "m", "e">>,   \* "volume"
        <<"m", "a", "r", "k", "e", "t", " ", "c", "a", "p">>    \* "market cap"
      >>],
     [tag |-> "options", keywords |-> <<
        <<"o", "p", "t", "i", "o", "n">>,   \* "option"
        <<"c", "a", "l", "l">>,   \* "call"
        <<"p", "u", "t">>,   \* "put"
        <<"s", "t", "r", "i", "k", "e">>,   \* "strike"
        <<"e", "x", "p", "i", "r", "y">>,   \* "expiry"
        <<"i", "v">>,   \* "iv"
        <<"i", "m", "p", "l", "i", "e", "d", " ", "v", "o", "l", "a", "t", "i", "l", "i", "t", "y">>    \* "implied volatility"
      >>],
     [tag |-> "crypto", keywords |-> <<
        <<"c", "r", "y", "p", "t", "o">>,   \* "crypto"
        <<"b", "i", "t", "c", "o", "i", "n">>,   \* "bitcoin"
        <<"b", "t", "c">>,   \* "btc"
        <<"e", "t", "h", "e", "r", "e", "u", "m">>,   \* "ethereum"
        <<"e", "t", "h">>,   \* "eth"
        <<"c", "r", "y", "p", "t", "o", "c", "u", "r", "r", "e", "n", "c", "y">>,   \* "cryptocurrency"
        <<"d", "e", "f", "i">>,   \* "defi"
        <<"n", "f", "t">>    \* "nft"
      >>],
     [tag |-> "forex", keywords |-> <<
        <<"f", "o", "r", "e", "x">>,   \* "forex"
        <<"f", "x">>,   \* "fx"
        <<"c", "u", "r", "r", "e", "n", "c", "y">>,   \* "currency"
        <<"e", "x", "c", "h", "a", "n", "g", "e", " ", "r", "a", "t", "e">>,   \* "exchange rate"
        <<"u", "s", "d">>,   \* "usd"
        <<"e", "u", "r">>,   \* "eur"
        <<"g", "b", "p">>,   \* "gbp"
        <<"j", "p", "y">>    \* "jpy"
      >>],
     [tag |-> "economic_indicators", keywords |-> <<
        <<"g", "d", "p">>,   \* "gdp"
        <<"g", "r", "o", "w", "t", "h">>,   \* "growth"
        <<"e", "c", "o", "n", "o", "m", "i", "c">>,   \* "economic"
        <<"i", "n", "d", "i", "c", "a", "t", "o", "r">>,   \* "indicator"
        <<"m", "a", "c", "r", "o">>    \* "macro"
      >>],
     [tag |-> "inflation", keywords |-> <<
        <<"i", "n", "f", "l", "a", "t", "i", "o", "n">>,   \* "inflation"
        <<"c", "p", "i">>,   \* "cpi"
        <<"c", "o", "n", "s", "u", "m", "e", "r", " ", "p", "r", "i", "c", "e">>,   \* "consumer price"
        <<"p", "c", "e">>,   \* "pce"
        <<"d", "e", "f", "l", "a", "t", "o", "r">>    \* "deflator"
      >>],
     [tag |-> "employment", keywords |-> <<
        <<"e", "m", "p", "l", "o", "y", "m", "e", "n", "t">>,   \* "employment"
        <<"u", "n", "e", "m", "p", "l", "o", "y", "m", "e", "n", "t">>,   \* "unemployment"
        <<"j", "o", "b", "s">>,   \* "jobs"
        <<"p", "a", "y", "r", "o", "l", "l">>,   \* "payroll"
        <<"l", "a", "b", "o", "r">>,   \* "labor"
        <<"n", "f", "p">>    \* "nfp"
      >>],
     [tag |-> "interest_rates", keywords |-> <<
        <<"i", "n", "t", "e", "r", "e", "s", "t", " ", "r", "a", "t", "e">>,   \* "interest rate"
        <<"f", "e", "d", " ", "f", "u", "n", "d", "s">>,   \* "fed funds"
        <<"l", "i", "b", "o", "r">>,   \* "libor"
        <<"s", "o", "f", "r">>,   \* "sofr"
        <<"y", "i", "e", "l", "d">>,   \* "yield"
        <<"b", "o", "n", "d">>,   \* "bond"
        <<"t", "r", "e", "a", "s", "u", "r", "y">>    \* "treasury"
      >>],
     [tag |-> "housing", keywords |-> <<
        <<"h", "o", "u", "s", "i", "n", "g">>,   \* "housing"
        <<"h", "o", "m", "e">>,   \* "home"
        <<"m", "o", "r", "t", "g", "a", "g", "e">>,   \* "mortgage"
        <<"r", "e", "a", "l", " ", "e", "s", "t", "a", "t", "e">>,   \* "real estate"
        <<"c", "o", "n", "s", "t", "r", "u", "c", "t", "i", "o", "n">>    \* "construction"
      >>],
     [tag |-> "earnings", keywords |-> <<
        <<"e", "a", "r", "n", "i", "n", "g", "s">>,   \* "earnings"
        <<"r", "e", "v", "e", "n", "u", "e">>,   \* "revenue"
        <<"p", "r", "o", "f", "i", "t">>,   \* "profit"
        <<"e", "p", "s">>,   \* "eps"
        <<"p", "e", " ", "r", "a", "t", "i", "o">>,   \* "pe ratio"
        <<"i", "n", "c", "o", "m", "e">>    \* "income"
      >>],
     [tag |-> "fundamentals", keywords |-> <<
        <<"f", "u", "n", "d", "a", "m", "e", "n", "t", "a", "l">>,   \* "fundamental"
        <<"b", "a", "l", "a", "n", "c", "e", " ", "s", "h", "e", "e", "t">>,   \* "balance sheet"
        <<"c", "a", "s", "h", " ", "f", "l", "o", "w">>,   \* "cash flow"
        <<"r", "a", "t", "i", "o", "s">>    \* "ratios"
      >>],
     [tag |-> "filings", keywords |-> <<
        <<"f", "i", "l", "i", "n", "g">>,   \* "filing"
        <<"1", "0", "-", "k">>,   \* "10-k"
        <<"1", "0", "-", "q">>,   \* "10-q"
        <<"8", "-", "k">>,   \* "8-k"
        <<"s", "e", "c">>,   \* "sec"
        <<"e", "d", "g", "a", "r">>    \* "edgar"
      >>],
     [tag |-> "news", keywords |-> <<
        <<"n", "e", "w", "s">>,   \* "news"
        <<"h", "e", "a", "d", "l", "i", "n", "e">>,   \* "headline"
        <<"a", "r", "t", "i", "c", "l", "e">>,   \* "article"
        <<"s", "e", "n", "t", "i", "m", "e", "n", "t">>,   \* "sentiment"
        <<"m", "e", "n", "t", "i", "o", "n">>    \* "mention"
      >>] >>

\* QueryClassifier.geographic_keywords: geography tag -> trigger substrings.
geographic_keywords ==
  << [tag |-> "US", keywords |-> <<
        <<"u", "s">>,   \* "us"
        <<"u", "s", "a">>,   \* "usa"
        <<"u", "n", "i", "t", "e", "d", " ", "s", "t", "a", "t", "e", "s">>,   \* "united states"
        <<"a", "m", "e", "r", "i", "c", "a">>,   \* "america"
        <<"a", "m", "e", "r", "i", "c", "a", "n">>,   \* "american"
        <<"n", "a", "s", "d", "a", "q">>,   \* "nasdaq"
        <<"n", "y", "s", "e">>,   \* "nyse"
        <<"s", "&", "p">>    \* "s&p"
      >>],
     [tag |-> "EU", keywords |-> <<
        <<"e", "u">>,   \* "eu"
        <<"e", "u", "r", "o", "p", "e">>,   \* "europe"
        <<"e", "u", "r", "o", "p", "e", "a", "n">>,   \* "european"
        <<"e", "u", "r", "o", "z", "o", "n", "e">>,   \* "eurozone"
        <<"e", "c", "b">>    \* "ecb"
      >>],
     [tag |-> "UK", keywords |-> <<
        <<"u", "k">>,   \* "uk"
        <<"b", "r", "i", "t", "a", "i", "n">>,   \* "britain"
        <<"b", "r", "i", "t", "i", "s", "h">>,   \* "british"
        <<"l", "o", "n", "d", "o", "n">>,   \* "london"
        <<"f", "t", "s", "e">>    \* "ftse"
      >>],
     [tag |-> "Japan", keywords |-> <<
        <<"j", "a", "p", "a", "n">>,   \* "japan"
        <<"j", "a", "p", "a", "n", "e", "s", "e">>,   \* "japanese"
        <<"t", "o", "k", "y", "o">>,   \* "tokyo"
        <<"n", "i", "k", "k", "e", "i">>,   \* "nikkei"
        <<"y", "e", "n">>    \* "yen"
      >>],
     [tag |-> "China", keywords |-> <<
        <<"c", "h", "i", "n", "a">>,   \* "china"
        <<"c", "h", "i", "n", "e", "s", "e">>,   \* "chinese"
        <<"s", "h", "a", "n", "g", "h", "a", "i">>,   \* "shanghai"
        <<"s", "h", "e", "n", "z", "h", "e", "n">>,   \* "shenzhen"
        <<"y", "u", "a", "n">>,   \* "yuan"
        <<"r", "m", "b">>    \* "rmb"
      >>],
     [tag |-> "Global", keywords |-> <<
        <<"g", "l", "o", "b", "a", "l">>,   \* "global"
        <<"w", "o", "r", "l", "d">>,   \* "world"
        <<"i", "n", "t", "e", "r", "n", "a", "t", "i", "o", "n", "a", "l">>,   \* "international"
        <<"w", "o", "r", "l", "d", "w", "i", "d", "e">>    \* "worldwide"
      >>] >>

\* A faulty variant of preference_keywords: "real-time" is one more trigger of fast.
preference_keywords_realtime ==
  << [tag |-> "free", keywords |-> <<
        <<"f", "r", "e", "e">>,   \* "free"
        <<"n", "o", " ", "c", "o", "s", "t">>,   \* "no cost"
        <<"w", "i", "t", "h", "o", "u", "t", " ", "p", "a", "y", "i", "n", "g">>,   \* "without paying"
        <<"n", "o", " ", "a", "p", "i", " ", "k", "e", "y">>    \* "no api key"
      >>],
     [tag |-> "fast", keywords |-> <<
        <<"f", "a", "s", "t">>,   \* "fast"
        <<"q", "u", "i", "c", "k">>,   \* "quick"
        <<"i", "n", "s", "t", "a", "n", "t">>,   \* "instant"
        <<"i", "m", "m", "e", "d", "i", "a", "t", "e">>,   \* "immediate"
        <<"l", "o", "w", " ", "l", "a", "t", "e", "n", "c", "y">>,   \* "low latency"
        <<"r", "e", "a", "l", "-", "t", "i", "m", "e">>    \* "real-time"
      >>],
     [tag |-> "comprehensive", keywords |-> <<
        <<"c", "o", "m", "p", "r", "e", "h", "e", "n", "s", "i", "v", "e">>,   \* "comprehensive"
        <<"c", "o", "m", "p", "l", "e", "t", "e">>,   \* "complete"
        <<"a", "l", "l">>,   \* "all"
        <<"e", "v", "e", "r", "y", "t", "h", "i", "n", "g">>,   \* "everything"
        <<"d", "e", "t", "a", "i", "l", "e", "d">>    \* "detailed"
      >>],
     [tag |-> "official", keywords |-> <<
        <<"o", "f", "f", "i", "c", "i", "a", "l">>,   \* "official"
        <<"g", "o", "v", "e", "r", "n", "m", "e", "n", "t">>,   \* "government"
        <<"a", "u", "t", "h", "o", "r", "i", "t", "a", "t", "i", "v", "e">>,   \* "authoritative"
        <<"p", "r", "i", "m", "a", "r", "y", " ", "s", "o", "u", "r", "c", "e">>    \* "primary source"
      >>] >>

\* QueryClassifier.preference_keywords: preference tag -> trigger substrings.
preference_keywords ==
  << [tag |-> "free", keywords |-> <<
        <<"f", "r", "e", "e">>,   \* "free"
        <<"n", "o", " ", "c", "o", "s", "t">>,   \* "no cost"
        <<"w", "i", "t", "h", "o", "u", "t", " ", "p", "a", "y", "i", "n", "g">>,   \* "without paying"
        <<"n", "o", " ", "a", "p", "i", " ", "k", "e", "y">>    \* "no api key"
      >>],
     [tag |-> "fast", keywords |-> <<
        <<"f", "a", "s", "t">>,   \* "fast"
        <<"q", "u", "i", "c", "k">>,   \* "quick"
        <<"i", "n", "s", "t", "a", "n", "t">>,   \* "instant"
        <<"i", "m", "m", "e", "d", "i", "a", "t", "e">>,   \* "immediate"
        <<"l", "o", "w", " ", "l", "a", "t", "e", "n", "c", "y">>    \* "low latency"
      >>],
     [tag |-> "comprehensive", keywords |-> <<
        <<"c", "o", "m", "p", "r", "e", "h", "e", "n", "s", "i", "v", "e">>,   \* "comprehensive"
        <<"c", "o", "m", "p", "l", "e", "t", "e">>,   \* "complete"
        <<"a", "l", "l">>,   \* "all"
        <<"e", "v", "e", "r", "y", "t", "h", "i", "n", "g">>,   \* "everything"
        <<"d", "e", "t", "a", "i", "l", "e", "d">>    \* "detailed"
      >>],
     [tag |-> "official", keywords |-> <<
        <<"o", "f", "f", "i", "c", "i", "a", "l">>,   \* "official"
        <<"g", "o", "v", "e", "r", "n", "m", "e", "n", "t">>,   \* "government"
        <<"a", "u", "t", "h", "o", "r", "i", "t", "a", "t", "i", "v", "e">>,   \* "authoritative"
        <<"p", "r", "i", "m", "a", "r", "y", " ", "s", "o", "u", "r", "c", "e">>    \* "primary source"
      >>] >>

\* API_CONFIGS: the provider registry, in insertion order. Only the fields the
\* matcher reads are kept; response_time is kept as text because the matcher
\* searches it for substrings.
API_CONFIGS ==
  << [id |-> "fred", name |-> "Federal Reserve Economic Data",
      data_types |-> <<"economic_indicators", "interest_rates", "employment", "inflation", "gdp">>,
      geographic_coverage |-> <<"US", "International">>,
      requires_api_key |-> TRUE, free_tier |-> TRUE, local_available |-> TRUE,
      response_time |-> <<"<", "1", "0", "m", "s", " ", "(", "l", "o", "c", "a", "l", ")", ",", " ", "~", "5", "0", "0", "m", "s", " ", "(", "A", "P", "I", ")">>],   \* "<10ms (local), ~500ms (API)"
     [id |-> "sec", name |-> "SEC EDGAR",
      data_types |-> <<"filings", "financial_statements", "insider_trading", "10-K", "10-Q", "8-K">>,
      geographic_coverage |-> <<"US">>,
      requires_api_key |-> FALSE, free_tier |-> TRUE, local_available |-> TRUE,
      response_time |-> <<"<", "5", "0", "m", "s", " ", "(", "l", "o", "c", "a", "l", ")", ",", " ", "~", "1", "0", "0", "0", "m", "s", " ", "(", "A", "P", "I", ")">>],   \* "<50ms (local), ~1000ms (API)"
     [id |-> "bls", name |-> "Bureau of Labor Statistics",
      data_types |-> <<"employment", "cpi", "wages", "productivity", "jobs">>,
      geographic_coverage |-> <<"US">>,
      requires_api_key |-> TRUE, free_tier |-> TRUE, local_available |-> FALSE,
      response_time |-> <<"~", "5", "0", "0", "m", "s">>],   \* "~500ms"
     [id |-> "treasury", name |-> "US Treasury",
      data_types |-> <<"yield_curves", "treasury_rates", "debt", "revenue">>,
      geographic_coverage |-> <<"US">>,
      requires_api_key |-> FALSE, free_tier |-> TRUE, local_available |-> FALSE,
      response_time |-> <<"~", "3", "0", "0", "m", "s">>],   \* "~300ms"
     [id |-> "estat", name |-> "e-Stat (Japan)",
      data_types |-> <<"economic_indicators", "population", "trade", "gdp">>,
      geographic_coverage |-> <<"Japan">>,
      requires_api_key |-> TRUE, free_tier |-> TRUE, local_available |-> FALSE,
      response_time |-> <<"~", "8", "0", "0", "m", "s">>],   \* "~800ms"
     [id |-> "ecb", name |-> "European Central Bank",
      data_types |-> <<"interest_rates", "exchange_rates", "inflation", "monetary_policy">>,
      geographic_coverage |-> <<"EU", "Eurozone">>,
      requires_api_key |-> FALSE, free_tier |-> TRUE, local_available |-> FALSE,
      response_time |-> <<"~", "4", "0", "0", "m", "s">>],   \* "~400ms"
     [id |-> "imf", name |-> "International Monetary Fund",
      data_types |-> <<"gdp", "debt", "trade_balance", "reserves">>,
      geographic_coverage |-> <<"Global">>,
      requires_api_key |-> FALSE, free_tier |-> TRUE, local_available |-> FALSE,
      response_time |-> <<"~", "6", "0", "0", "m", "s">>],   \* "~600ms"
     [id |-> "worldbank", name |-> "World Bank",
      data_types |-> <<"development", "poverty", "education", "health", "gdp">>,
      geographic_coverage |-> <<"Global">>,
      requires_api_key |-> FALSE, free_tier |-> TRUE, local_available |-> FALSE,
      response_time |-> <<"~", "7", "0", "0", "m", "s">>],   \* "~700ms"
     [id |-> "oecd", name |-> "OECD",
      data_types |-> <<"gdp", "employment", "education", "health", "environment">>,
      geographic_coverage |-> <<"OECD Countries">>,
      requires_api_key |-> FALSE, free_tier |-> TRUE, local_available |-> FALSE,
      response_time |-> <<"~", "5", "0", "0", "m", "s">>],   \* "~500ms"
     [id |-> "polygon", name |-> "Polygon.io",
      data_types |-> <<"stocks", "options", "forex", "crypto">>,
      geographic_coverage |-> <<"US", "Global">>,
      requires_api_key |-> TRUE, free_tier |-> TRUE, local_available |-> FALSE,
      response_time |-> <<"~", "1", "0", "0", "m", "s">>],   \* "~100ms"
     [id |-> "fmp", name |-> "Financial Modeling Prep",
      data_types |-> <<"stocks", "fundamentals", "financial_statements", "ratios">>,
      geographic_coverage |-> <<"US", "Global">>,
      requires_api_key |-> TRUE, free_tier |-> TRUE, local_available |-> FALSE,
      response_time |-> <<"~", "2", "0", "0", "m", "s">>],   \* "~200ms"
     [id |-> "yahoo", name |-> "Yahoo Finance",
      data_types |-> <<"stocks", "etfs", "indices", "commodities", "crypto">>,
      geographic_coverage |-> <<"Global">>,
      requires_api_key |-> FALSE, free_tier |-> TRUE, local_available |-> FALSE,
      response_time |-> <<"~", "3", "0", "0", "m", "s">>],   \* "~300ms"
     [id |-> "alpha_vantage", name |-> "Alpha Vantage",
      data_types |-> <<"stocks", "forex", "crypto", "technical_indicators">>,
      geographic_coverage |-> <<"Global">>,
      requires_api_key |-> TRUE, free_tier |-> TRUE, local_available |-> FALSE,
      response_time |-> <<"~", "4", "0", "0", "m", "s">>],   \* "~400ms"
     [id |-> "twelve_data", name |-> "Twelve Data",
      data_types |-> <<"stocks", "forex", "crypto", "etf", "indices">>,
      geographic_coverage |-> <<"Global">>,
      requires_api_key |-> TRUE, free_tier |-> TRUE, local_available |-> FALSE,
      response_time |-> <<"~", "1", "5", "0", "m", "s">>],   \* "~150ms"
     [id |-> "coingecko", name |-> "CoinGecko",
      data_types |-> <<"crypto", "defi", "nft">>,
      geographic_coverage |-> <<"Global">>,
      requires_api_key |-> FALSE, free_tier |-> TRUE, local_available |-> FALSE,
      response_time |-> <<"~", "3", "0", "0", "m", "s">>],   \* "~300ms"
     [id |-> "cryptocompare", name |-> "CryptoCompare",
      data_types |-> <<"crypto", "blockchain", "exchanges">>,
      geographic_coverage |-> <<"Global">>,
      requires_api_key |-> TRUE, free_tier |-> TRUE, local_available |-> FALSE,
      response_time |-> <<"~", "1", "0", "0", "m", "s">>],   \* "~100ms"
     [id |-> "benzinga", name |-> "Benzinga",
      data_types |-> <<"news", "earnings", "dividends", "splits", "ipos">>,
      geographic_coverage |-> <<"US">>,
      requires_api_key |-> TRUE, free_tier |-> FALSE, local_available |-> FALSE,
      response_time |-> <<"~", "1", "0", "0", "m", "s">>],   \* "~100ms"
     [id |-> "newsapi", name |-> "NewsAPI",
      data_types |-> <<"news", "headlines">>,
      geographic_coverage |-> <<"Global">>,
      requires_api_key |-> TRUE, free_tier |-> TRUE, local_available |-> FALSE,
      response_time |-> <<"~", "2", "0", "0", "m", "s">>],   \* "~200ms"
     [id |-> "quandl", name |-> "Quandl (NASDAQ Data Link)",
      data_types |-> <<"stocks", "futures", "options", "economic_indicators">>,
      geographic_coverage |-> <<"Global">>,
      requires_api_key |-> TRUE, free_tier |-> TRUE, local_available |-> FALSE,
      response_time |-> <<"~", "3", "0", "0", "m", "s">>],   \* "~300ms"
     [id |-> "iex", name |-> "IEX Cloud",
      data_types |-> <<"stocks", "options", "crypto", "forex", "commodities">>,
      geographic_coverage |-> <<"US", "Global">>,
      requires_api_key |-> TRUE, free_tier |-> TRUE, local_available |-> FALSE,
      response_time |-> <<"~", "5", "0", "m", "s">>],   \* "~50ms"
     [id |-> "tiingo", name |-> "Tiingo",
      data_types |-> <<"stocks", "crypto", "news">>,
      geographic_coverage |-> <<"US", "Global">>,
      requires_api_key |-> TRUE, free_tier |-> TRUE, local_available |-> FALSE,
      response_time |-> <<"~", "1", "0", "0", "m", "s">>],   \* "~100ms"
     [id |-> "finnhub", name |-> "Finnhub",
      data_types |-> <<"stocks", "forex", "crypto", "news", "sentiment">>,
      geographic_coverage |-> <<"Global">>,
      requires_api_key |-> TRUE, free_tier |-> TRUE, local_available |-> FALSE,
      response_time |-> <<"~", "1", "5", "0", "m", "s">>],   \* "~150ms"
     [id |-> "marketstack", name |-> "MarketStack",
      data_types |-> <<"stocks", "etfs", "indices">>,
      geographic_coverage |-> <<"Global">>,
      requires_api_key |-> TRUE, free_tier |-> TRUE, local_available |-> FALSE,
      response_time |-> <<"~", "2", "0", "0", "m", "s">>] >>   \* "~200ms"

----------------------------------------------------------------------------
(* QueryClassifier *)

\* The loop shared by the three extractors: for each table entry in declared
\* order, append its tag when any of its keywords occurs in the query.
FoundTags(table, query) ==
  LET Hit(entry) == \E k \in DOMAIN entry.keywords : Contains(query, entry.keywords[k])
      found == SelectSeq(table, Hit)
  IN  [i \in DOMAIN found |-> found[i].tag]

_extract_data_types(query) == FoundTags(data_type_keywords, query)

\* A faulty variant of _extract_geography: the ["Global"] default is missing.
_extract_geography_no_default(query) == FoundTags(geographic_keywords, query)

_extract_geography(query) ==
  LET found_geo == FoundTags(geographic_keywords, query)
  IN  IF found_geo # <<>> THEN found_geo ELSE <<"Global">>

_extract_preferences(query) == FoundTags(preference_keywords, query)

\* \b at the gap after position p (0 = before the first character): exactly
\* one of the two neighbours is a word character.
WordBoundary(text, p) ==
  (p >= 1 /\ IsWordChar(text[p])) # (p + 1 <= Len(text) /\ IsWordChar(text[p + 1]))

\* \b[A-Z]{1,5}\b matches the k characters starting at position i.
TickerMatchAt(text, i, k) ==
  /\ i + k - 1 <= Len(text)
  /\ WordBoundary(text, i - 1)
  /\ \A j \in i..(i + k - 1) : IsUpper(text[j])
  /\ WordBoundary(text, i + k - 1)

\* re.findall(ticker_pattern, query) from position pos on: leftmost match
\* first, the longest repetition first, then on from the end of the match.
RECURSIVE FindAllTickers(_, _)
FindAllTickers(text, pos) ==
  IF pos > Len(text) THEN <<>>
  ELSE LET lens == {k \in 1..5 : TickerMatchAt(text, pos, k)}
       IN  IF lens = {} THEN FindAllTickers(text, pos + 1)
           ELSE LET k == CHOOSE m \in lens : \A o \in lens : o <= m
                IN  <<SubSeq(text, pos, pos + k - 1)>> \o FindAllTickers(text, pos + k)

common_words ==
  { <<"U", "S">>, <<"U", "K">>, <<"E", "U">>, <<"G", "D", "P">>, <<"C", "P", "I">>,
    <<"A", "P", "I">>, <<"R", "E", "S", "T">>, <<"J", "S", "O", "N">>, <<"C", "S", "V">> }

\* A faulty variant of _extract_symbols: the common words are not filtered out.
_extract_symbols_unfiltered(query) == ToSet(FindAllTickers(query, 1))

\* list(set(tickers)): the order of the returned list is not determined by
\* the code, so the result is kept as the set of its elements.
_extract_symbols(query) ==
  LET potential_tickers == FindAllTickers(query, 1)
      NotCommon(t) == t \notin common_words
  IN  ToSet(SelectSeq(potential_tickers, NotCommon))

\* A faulty variant of _generate_reasoning: the preference clauses are appended
\* in the order official, fast, free.
_generate_reasoning_reordered(classification) ==
  LET data_part ==
        IF classification.data_types # <<>>
          THEN << <<"User is looking for ">> \o JoinAtoms(classification.data_types, ", ")
                    \o <<" data">> >>
          ELSE << <<"No specific data type identified, will search broadly">> >>
      geo_part ==
        IF classification.geography # <<"Global">>
          THEN << <<"Geographic focus: ">> \o JoinAtoms(classification.geography, ", ") >>
          ELSE <<>>
      prefs == ToSet(classification.preferences)
      free_part == IF "free" \in prefs
                     THEN << <<"Prefers free/no API key providers">> >> ELSE <<>>
      fast_part == IF "fast" \in prefs
                     THEN << <<"Prefers low-latency providers (local data if available)">> >>
                     ELSE <<>>
      official_part == IF "official" \in prefs
                         THEN << <<"Prefers official/government sources">> >> ELSE <<>>
      reasoning_parts == data_part \o geo_part \o official_part \o fast_part \o free_part
  IN  JoinTexts(reasoning_parts, " -> ")

\* The reasoning text is a sequence of atoms: fixed phrases, tags and separators.
_generate_reasoning(classification) ==
  LET data_part ==
        IF classification.data_types # <<>>
          THEN << <<"User is looking for ">> \o JoinAtoms(classification.data_types, ", ")
                    \o <<" data">> >>
          ELSE << <<"No specific data type identified, will search broadly">> >>
      geo_part ==
        IF classification.geography # <<"Global">>
          THEN << <<"Geographic focus: ">> \o JoinAtoms(classification.geography, ", ") >>
          ELSE <<>>
      prefs == ToSet(classification.preferences)
      free_part == IF "free" \in prefs
                     THEN << <<"Prefers free/no API key providers">> >> ELSE <<>>
      fast_part == IF "fast" \in prefs
                     THEN << <<"Prefers low-latency providers (local data if available)">> >>
                     ELSE <<>>
      official_part == IF "official" \in prefs
                         THEN << <<"Prefers official/government sources">> >> ELSE <<>>
      reasoning_parts == data_part \o geo_part \o free_part \o fast_part \o official_part
  IN  JoinTexts(reasoning_parts, " -> ")

classify_query(query) ==
  LET query_lower == Lower(query)
      classification ==
        [original_query   |-> query,
         data_types       |-> _extract_data_types(query_lower),
         geography        |-> _extract_geography(query_lower),
         preferences      |-> _extract_preferences(query_lower),
         specific_symbols |-> _extract_symbols(query)]
  IN  [original_query   |-> classification.original_query,
       data_types       |-> classification.data_types,
       geography        |-> classification.geography,
       preferences      |-> classification.preferences,
       specific_symbols |-> classification.specific_symbols,
       reasoning        |-> _generate_reasoning(classification)]

----------------------------------------------------------------------------
(* ProviderMatcher *)

Max(a, b) == IF a >= b THEN a ELSE b

Min(a, b) == IF a <= b THEN a ELSE b

\* len(query_types & provider_types)
DataTypeOverlap(classification, config) ==
  Cardinality(ToSet(classification.data_types) \cap ToSet(config.data_types))

\* The early "return 0": both sets are non-empty and share no tag.
DataTypeSkip(classification, config) ==
  /\ classification.data_types # <<>>
  /\ config.data_types # <<>>
  /\ DataTypeOverlap(classification, config) = 0

\* A faulty variant of DataTypeTerm: the overlap is counted one too low.
DataTypeTermOffByOne(classification, config) ==
  IF classification.data_types # <<>> /\ config.data_types # <<>>
    THEN (DataTypeOverlap(classification, config) - 1) * 100
    ELSE IF classification.data_types = <<>> THEN 10 ELSE 0

\* A faulty variant of DataTypeTerm: no base score when the query names no
\* data type.
DataTypeTermNoBase(classification, config) ==
  IF classification.data_types # <<>> /\ config.data_types # <<>>
    THEN DataTypeOverlap(classification, config) * 100
    ELSE 0

\* Data type matching: 1 point per matching data type, or the 0.1 base score
\* when the query names no data type.
DataTypeTerm(classification, config) ==
  IF classification.data_types # <<>> /\ config.data_types # <<>>
    THEN DataTypeOverlap(classification, config) * 100
    ELSE IF classification.data_types = <<>> THEN 10 ELSE 0

\* Geographic matching.
GeographyTerm(classification, config) ==
  LET provider_geo == ToSet(config.geographic_coverage)
      query_geo == ToSet(classification.geography)
  IN  IF "Global" \in provider_geo \/ query_geo \cap provider_geo # {} THEN 50
      ELSE IF query_geo = {} \/ "Global" \in query_geo THEN 20
      ELSE 0

govt_providers ==
  <<"fred", "sec", "bls", "treasury", "ecb", "imf", "worldbank", "oecd", "estat">>

FastResponseMarks ==
  << <<"<", "1", "0", "0">>, <<"<", "5", "0">>, <<"<", "1", "0">> >>

\* A faulty variant of PreferenceTerm: the free-tier bonus is not given.
PreferenceTermNoFreeTier(classification, config, provider_id) ==
  LET preferences == ToSet(classification.preferences)
      free == IF "free" \in preferences
                THEN (IF ~config.requires_api_key THEN 30 ELSE 0)
                ELSE 0
      fast == IF "fast" \in preferences
                THEN (IF config.local_available THEN 100 ELSE 0)
                     + (IF /\ Contains(config.response_time, <<"m", "s">>)
                           /\ \E x \in DOMAIN FastResponseMarks :
                                Contains(config.response_time, FastResponseMarks[x])
                          THEN 50 ELSE 0)
                ELSE 0
      official == IF "official" \in preferences /\ provider_id \in ToSet(govt_providers)
                    THEN 80 ELSE 0
      comprehensive == IF "comprehensive" \in preferences
                         THEN Len(config.data_types) * 5 ELSE 0
  IN  free + fast + official + comprehensive

\* Preference matching.
PreferenceTerm(classification, config, provider_id) ==
  LET preferences == ToSet(classification.preferences)
      free == IF "free" \in preferences
                THEN (IF config.free_tier THEN 50 ELSE 0)
                     + (IF ~config.requires_api_key THEN 30 ELSE 0)
                ELSE 0
      fast == IF "fast" \in preferences
                THEN (IF config.local_available THEN 100 ELSE 0)
                     + (IF /\ Contains(config.response_time, <<"m", "s">>)
                           /\ \E x \in DOMAIN FastResponseMarks :
                                Contains(config.response_time, FastResponseMarks[x])
                          THEN 50 ELSE 0)
                ELSE 0
      official == IF "official" \in preferences /\ provider_id \in ToSet(govt_providers)
                    THEN 80 ELSE 0
      comprehensive == IF "comprehensive" \in preferences
                         THEN Len(config.data_types) * 5 ELSE 0
  IN  free + fast + official + comprehensive

_calculate_match_score(classification, config, provider_id) ==
  IF DataTypeSkip(classification, config) THEN 0
  ELSE Max(0, DataTypeTerm(classification, config)
              + GeographyTerm(classification, config)
              + PreferenceTerm(classification, config, provider_id))

\* A faulty variant of _get_match_reasons: the "No API key required" reason is
\* tested with if in place of elif, so it is also appended after "Free tier
\* available".
_get_match_reasons_both_free(classification, config) ==
  LET matching_types == ToSet(classification.data_types) \cap ToSet(config.data_types)
      provider_geo == ToSet(config.geographic_coverage)
      query_geo == ToSet(classification.geography)
      types_reason == IF matching_types # {}
                        THEN << [kind |-> "Provides", tags |-> matching_types] >> ELSE <<>>
      geo_reason == IF query_geo \cap provider_geo # {}
                      THEN << [kind |-> "Covers", tags |-> query_geo \cap provider_geo] >>
                    ELSE IF "Global" \in provider_geo
                      THEN << [kind |-> "Global coverage", tags |-> {}] >>
                    ELSE <<>>
      local_reason == IF config.local_available
                        THEN << [kind |-> "Local database available (<10ms)", tags |-> {}] >>
                        ELSE <<>>
      free_reason == (IF config.free_tier
                        THEN << [kind |-> "Free tier available", tags |-> {}] >> ELSE <<>>)
                     \o (IF ~config.requires_api_key
                           THEN << [kind |-> "No API key required", tags |-> {}] >> ELSE <<>>)
  IN  types_reason \o geo_reason \o local_reason \o free_reason

\* A reason is kept as its kind and the set of tags it names; the code joins
\* the tags of a set, whose order it does not determine.
_get_match_reasons(classification, config) ==
  LET matching_types == ToSet(classification.data_types) \cap ToSet(config.data_types)
      provider_geo == ToSet(config.geographic_coverage)
      query_geo == ToSet(classification.geography)
      types_reason == IF matching_types # {}
                        THEN << [kind |-> "Provides", tags |-> matching_types] >> ELSE <<>>
      geo_reason == IF query_geo \cap provider_geo # {}
                      THEN << [kind |-> "Covers", tags |-> query_geo \cap provider_geo] >>
                    ELSE IF "Global" \in provider_geo
                      THEN << [kind |-> "Global coverage", tags |-> {}] >>
                    ELSE <<>>
      local_reason == IF config.local_available
                        THEN << [kind |-> "Local database available (<10ms)", tags |-> {}] >>
                        ELSE <<>>
      free_reason == IF config.free_tier
                       THEN << [kind |-> "Free tier available", tags |-> {}] >>
                     ELSE IF ~config.requires_api_key
                       THEN << [kind |-> "No API key required", tags |-> {}] >>
                     ELSE <<>>
  IN  types_reason \o geo_reason \o local_reason \o free_reason

\* One entry of the matches list.
MatchEntry(classification, config) ==
  [provider        |-> config.id,
   name            |-> config.name,
   score           |-> _calculate_match_score(classification, config, config.id),
   match_reasons   |-> _get_match_reasons(classification, config),
   requires_key    |-> config.requires_api_key,
   free_tier       |-> config.free_tier,
   local_available |-> config.local_available,
   response_time   |-> config.response_time]

\* A faulty variant of ScoredMatches: a provider is kept when its score is not
\* negative.
ScoredMatchesNonNegative(registry, classification) ==
  LET NonNegative(config) == _calculate_match_score(classification, config, config.id) >= 0
      kept == SelectSeq(registry, NonNegative)
  IN  [i \in DOMAIN kept |-> MatchEntry(classification, kept[i])]

\* The loop over self.providers.items(): the providers with a positive score,
\* in registry order.
ScoredMatches(registry, classification) ==
  LET Positive(config) == _calculate_match_score(classification, config, config.id) > 0
      kept == SelectSeq(registry, Positive)
  IN  [i \in DOMAIN kept |-> MatchEntry(classification, kept[i])]

\* A faulty variant of InsertByScore: an entry goes before the entries of equal score.
InsertBeforeEqual(sorted, entry) ==
  LET n == Cardinality({i \in DOMAIN sorted : sorted[i].score > entry.score})
  IN  SubSeq(sorted, 1, n) \o <<entry>> \o SubSeq(sorted, n + 1, Len(sorted))

\* A faulty variant of InsertByScore: the sort is ascending, the entry goes
\* after every entry whose score is smaller or equal.
InsertAscending(sorted, entry) ==
  LET n == Cardinality({i \in DOMAIN sorted : sorted[i].score <= entry.score})
  IN  SubSeq(sorted, 1, n) \o <<entry>> \o SubSeq(sorted, n + 1, Len(sorted))

\* One step of the stable descending sort: the entry goes after every entry
\* whose score is greater or equal.
InsertByScore(sorted, entry) ==
  LET n == Cardinality({i \in DOMAIN sorted : sorted[i].score >= entry.score})
  IN  SubSeq(sorted, 1, n) \o <<entry>> \o SubSeq(sorted, n + 1, Len(sorted))

\* matches.sort(key=lambda x: x["score"], reverse=True): descending by score,
\* entries of equal score keep their order.
RECURSIVE SortByScore(_)
SortByScore(matches) ==
  IF matches = <<>> THEN <<>>
  ELSE InsertByScore(SortByScore(SubSeq(matches, 1, Len(matches) - 1)),
                     matches[Len(matches)])

\* A faulty variant of SliceTo: the slice ends one element late.
SliceToInclusive(seq, n) ==
  IF n >= 0 THEN SubSeq(seq, 1, Min(n + 1, Len(seq)))
  ELSE SubSeq(seq, 1, Max(0, Len(seq) + n))

\* seq[:n]: the first n elements, all of them when there are fewer; a
\* negative n drops the last -n elements.
SliceTo(seq, n) ==
  IF n >= 0 THEN SubSeq(seq, 1, Min(n, Len(seq)))
  ELSE SubSeq(seq, 1, Max(0, Len(seq) + n))

match_providers(registry, classification, top_n) ==
  SliceTo(SortByScore(ScoredMatches(registry, classification)), top_n)

----------------------------------------------------------------------------
(* create_provider_recommendation *)

\* A recommendation is a sequence of lines and a line a sequence of atoms
\* (fixed phrases, tags, names, characters of the query).

\* The elements of a set in one fixed order.
SetToSeq(S) ==
  CHOOSE seq \in [1..Cardinality(S) -> S] : \A e \in S : \E i \in DOMAIN seq : seq[i] = e

\* ', '.join(tags) for a set of tags: the code does not determine the order
\* of a set, so the tags are kept as a braced group that stands for them in
\* any order.
JoinSet(S) == <<"{">> \o SetToSeq(S) \o <<"}">>

\* The text of one match reason.
ReasonText(reason) ==
  IF reason.kind = "Provides" THEN <<"Provides ">> \o JoinSet(reason.tags) \o <<" data">>
  ELSE IF reason.kind = "Covers" THEN <<"Covers ">> \o JoinSet(reason.tags)
  ELSE <<reason.kind>>

\* f"{score:.2f}" for a score in hundredths.
FormatScore(score) ==
  <<ToString(score \div 100), ".", ToString((score % 100) \div 10), ToString(score % 10)>>

YesNo(flag) == IF flag THEN "Yes" ELSE "No"

NoMatchLine == <<"No matching providers found for this query.">>

\* The part of the text before the providers.
HeaderLines(q, c) ==
  << <<"# Provider Recommendation for Query">>,
     <<>>,
     <<"## Query Analysis">>,
     <<"**Original Query**: ">> \o q,
     <<"**Reasoning**: ">> \o c.reasoning,
     <<>>,
     <<"## Detected Requirements">>,
     <<"- **Data Types**: ">>
       \o (IF c.data_types # <<>> THEN JoinAtoms(c.data_types, ", ") ELSE <<"Not specified">>),
     <<"- **Geography**: ">> \o JoinAtoms(c.geography, ", "),
     <<"- **Preferences**: ">>
       \o (IF c.preferences # <<>> THEN JoinAtoms(c.preferences, ", ")
           ELSE <<"None specified">>),
     <<>>,
     <<"## Recommended Providers">> >>

\* The numbered entry of the i-th match.
EntryLines(i, match) ==
  << <<>>,
     <<"### ", ToString(i), ". ", match.name, " (", match.provider, ")">>,
     <<"- **Score**: ">> \o FormatScore(match.score),
     <<"- **Match Reasons**: ">>
       \o JoinTexts([r \in DOMAIN match.match_reasons |-> ReasonText(match.match_reasons[r])],
                    "; "),
     <<"- **API Key Required**: ", YesNo(match.requires_key)>>,
     <<"- **Free Tier**: ", YesNo(match.free_tier)>>,
     <<"- **Local Data**: ", YesNo(match.local_available)>>,
     <<"- **Response Time**: ">> \o match.response_time >>

RECURSIVE AllEntryLines(_, _)
AllEntryLines(found, i) ==
  IF i > Len(found) THEN <<>>
  ELSE EntryLines(i, found[i]) \o AllEntryLines(found, i + 1)

\* A faulty variant of ProviderLines: nothing is written when there is no match.
ProviderLinesNoElse(found) == AllEntryLines(found, 1)

\* if matches: the numbered entries; else: the line saying there is none.
ProviderLines(found) ==
  IF found # <<>> THEN AllEntryLines(found, 1)
  ELSE << <<>>, NoMatchLine >>

\* The text create_provider_recommendation returns for a query, given its
\* classification and matches.
RecommendationText(q, c, found) == HeaderLines(q, c) \o ProviderLines(found)

create_provider_recommendation(registry, q) ==
  LET c == classify_query(q)
      found == match_providers(registry, c, DefaultTopN)
  IN  RecommendationText(q, c, found)

----------------------------------------------------------------------------
(* The resource server: handle_read_resource and fetch_api_documentation *)

\* The keys of an API_CONFIGS entry: every entry has exactly these.
config_keys ==
  { "name", "base_url", "docs_paths", "data_types", "geographic_coverage", "time_coverage",
    "frequency", "requires_api_key", "free_tier", "rate_limit", "response_time", "local_available", "content_selector" }

\* The key of every API_CONFIGS entry, as a tag and as text, and its base_url,
\* in registry order.
base_urls ==
  << [id |-> "fred", id_text |-> <<"f", "r", "e", "d">>,   \* "https://fred.stlouisfed.org/docs/api/fred/"
      base_url |-> <<"h", "t", "t", "p", "s", ":", "/", "/", "f", "r", "e", "d", ".", "s", "t", "l", "o", "u", "i", "s", "f", "e", "d", ".", "o", "r", "g", "/", "d", "o", "c", "s", "/", "a", "p", "i", "/", "f", "r", "e", "d", "/">>],
     [id |-> "sec", id_text |-> <<"s", "e", "c">>,   \* "https://www.sec.gov/os/webmaster-faq"
      base_url |-> <<"h", "t", "t", "p", "s", ":", "/", "/", "w", "w", "w", ".", "s", "e", "c", ".", "g", "o", "v", "/", "o", "s", "/", "w", "e", "b", "m", "a", "s", "t", "e", "r", "-", "f", "a", "q">>],
     [id |-> "bls", id_text |-> <<"b", "l", "s">>,   \* "https://www.bls.gov/developers/api_signature_v2.htm"
      base_url |-> <<"h", "t", "t", "p", "s", ":", "/", "/", "w", "w", "w", ".", "b", "l", "s", ".", "g", "o", "v", "/", "d", "e", "v", "e", "l", "o", "p", "e", "r", "s", "/", "a", "p", "i", "_", "s", "i", "g", "n", "a", "t", "u", "r", "e", "_", "v", "2", ".", "h", "t", "m">>],
     [id |-> "treasury", id_text |-> <<"t", "r", "e", "a", "s", "u", "r", "y">>,   \* "https://api.fiscaldata.treasury.gov/services/api/fiscal_service"
      base_url |-> <<"h", "t", "t", "p", "s", ":", "/", "/", "a", "p", "i", ".", "f", "i", "s", "c", "a", "l", "d", "a", "t", "a", ".", "t", "r", "e", "a", "s", "u", "r", "y", ".", "g", "o", "v", "/", "s", "e", "r", "v", "i", "c", "e", "s", "/", "a", "p", "i", "/", "f", "i", "s", "c", "a", "l", "_", "s", "e", "r", "v", "i", "c", "e">>],
     [id |-> "estat", id_text |-> <<"e", "s", "t", "a", "t">>,   \* "https://www.e-stat.go.jp/api/"
      base_url |-> <<"h", "t", "t", "p", "s", ":", "/", "/", "w", "w", "w", ".", "e", "-", "s", "t", "a", "t", ".", "g", "o", ".", "j", "p", "/", "a", "p", "i", "/">>],
     [id |-> "ecb", id_text |-> <<"e", "c", "b">>,   \* "https://sdw-wsrest.ecb.europa.eu/help/"
      base_url |-> <<"h", "t", "t", "p", "s", ":", "/", "/", "s", "d", "w", "-", "w", "s", "r", "e", "s", "t", ".", "e", "c", "b", ".", "e", "u", "r", "o", "p", "a", ".", "e", "u", "/", "h", "e", "l", "p", "/">>],
     [id |-> "imf", id_text |-> <<"i", "m", "f">>,   \* "https://data.imf.org/"
      base_url |-> <<"h", "t", "t", "p", "s", ":", "/", "/", "d", "a", "t", "a", ".", "i", "m", "f", ".", "o", "r", "g", "/">>],
     [id |-> "worldbank", id_text |-> <<"w", "o", "r", "l", "d", "b", "a", "n", "k">>,   \* "https://datahelpdesk.worldbank.org/knowledgebase/"
      base_url |-> <<"h", "t", "t", "p", "s", ":", "/", "/", "d", "a", "t", "a", "h", "e", "l", "p", "d", "e", "s", "k", ".", "w", "o", "r", "l", "d", "b", "a", "n", "k", ".", "o", "r", "g", "/", "k", "n", "o", "w", "l", "e", "d", "g", "e", "b", "a", "s", "e", "/">>],
     [id |-> "oecd", id_text |-> <<"o", "e", "c", "d">>,   \* "https://data.oecd.org/api/sdmx-json-documentation/"
      base_url |-> <<"h", "t", "t", "p", "s", ":", "/", "/", "d", "a", "t", "a", ".", "o", "e", "c", "d", ".", "o", "r", "g", "/", "a", "p", "i", "/", "s", "d", "m", "x", "-", "j", "s", "o", "n", "-", "d", "o", "c", "u", "m", "e", "n", "t", "a", "t", "i", "o", "n", "/">>],
     [id |-> "polygon", id_text |-> <<"p", "o", "l", "y", "g", "o", "n">>,   \* "https://polygon.io/docs/"
      base_url |-> <<"h", "t", "t", "p", "s", ":", "/", "/", "p", "o", "l", "y", "g", "o", "n", ".", "i", "o", "/", "d", "o", "c", "s", "/">>],
     [id |-> "fmp", id_text |-> <<"f", "m", "p">>,   \* "https://financialmodelingprep.com/developer/docs"
      base_url |-> <<"h", "t", "t", "p", "s", ":", "/", "/", "f", "i", "n", "a", "n", "c", "i", "a", "l", "m", "o", "d", "e", "l", "i", "n", "g", "p", "r", "e", "p", ".", "c", "o", "m", "/", "d", "e", "v", "e", "l", "o", "p", "e", "r", "/", "d", "o", "c", "s">>],
     [id |-> "yahoo", id_text |-> <<"y", "a", "h", "o", "o">>,   \* "https://github.com/ranaroussi/yfinance"
      base_url |-> <<"h", "t", "t", "p", "s", ":", "/", "/", "g", "i", "t", "h", "u", "b", ".", "c", "o", "m", "/", "r", "a", "n", "a", "r", "o", "u", "s", "s", "i", "/", "y", "f", "i", "n", "a", "n", "c", "e">>],
     [id |-> "alpha_vantage", id_text |-> <<"a", "l", "p", "h", "a", "_", "v", "a", "n", "t", "a", "g", "e">>,   \* "https://www.alphavantage.co/documentation/"
      base_url |-> <<"h", "t", "t", "p", "s", ":", "/", "/", "w", "w", "w", ".", "a", "l", "p", "h", "a", "v", "a", "n", "t", "a", "g", "e", ".", "c", "o", "/", "d", "o", "c", "u", "m", "e", "n", "t", "a", "t", "i", "o", "n", "/">>],
     [id |-> "twelve_data", id_text |-> <<"t", "w", "e", "l", "v", "e", "_", "d", "a", "t", "a">>,   \* "https://twelvedata.com/docs"
      base_url |-> <<"h", "t", "t", "p", "s", ":", "/", "/", "t", "w", "e", "l", "v", "e", "d", "a", "t", "a", ".", "c", "o", "m", "/", "d", "o", "c", "s">>],
     [id |-> "coingecko", id_text |-> <<"c", "o", "i", "n", "g", "e", "c", "k", "o">>,   \* "https://www.coingecko.com/en/api/documentation"
      base_url |-> <<"h", "t", "t", "p", "s", ":", "/", "/", "w", "w", "w", ".", "c", "o", "i", "n", "g", "e", "c", "k", "o", ".", "c", "o", "m", "/", "e", "n", "/", "a", "p", "i", "/", "d", "o", "c", "u", "m", "e", "n", "t", "a", "t", "i", "o", "n">>],
     [id |-> "cryptocompare", id_text |-> <<"c", "r", "y", "p", "t", "o", "c", "o", "m", "p", "a", "r", "e">>,   \* "https://min-api.cryptocompare.com/documentation"
      base_url |-> <<"h", "t", "t", "p", "s", ":", "/", "/", "m", "i", "n", "-", "a", "p", "i", ".", "c", "r", "y", "p", "t", "o", "c", "o", "m", "p", "a", "r", "e", ".", "c", "o", "m", "/", "d", "o", "c", "u", "m", "e", "n", "t", "a", "t", "i", "o", "n">>],
     [id |-> "benzinga", id_text |-> <<"b", "e", "n", "z", "i", "n", "g", "a">>,   \* "https://docs.benzinga.io/benzinga/"
      base_url |-> <<"h", "t", "t", "p", "s", ":", "/", "/", "d", "o", "c", "s", ".", "b", "e", "n", "z", "i", "n", "g", "a", ".", "i", "o", "/", "b", "e", "n", "z", "i", "n", "g", "a", "/">>],
     [id |-> "newsapi", id_text |-> <<"n", "e", "w", "s", "a", "p", "i">>,   \* "https://newsapi.org/docs"
      base_url |-> <<"h", "t", "t", "p", "s", ":", "/", "/", "n", "e", "w", "s", "a", "p", "i", ".", "o", "r", "g", "/", "d", "o", "c", "s">>],
     [id |-> "quandl", id_text |-> <<"q", "u", "a", "n", "d", "l">>,   \* "https://docs.data.nasdaq.com/"
      base_url |-> <<"h", "t", "t", "p", "s", ":", "/", "/", "d", "o", "c", "s", ".", "d", "a", "t", "a", ".", "n", "a", "s", "d", "a", "q", ".", "c", "o", "m", "/">>],
     [id |-> "iex", id_text |-> <<"i", "e", "x">>,   \* "https://iexcloud.io/docs/"
      base_url |-> <<"h", "t", "t", "p", "s", ":", "/", "/", "i", "e", "x", "c", "l", "o", "u", "d", ".", "i", "o", "/", "d", "o", "c", "s", "/">>],
     [id |-> "tiingo", id_text |-> <<"t", "i", "i", "n", "g", "o">>,   \* "https://www.tiingo.com/documentation/"
      base_url |-> <<"h", "t", "t", "p", "s", ":", "/", "/", "w", "w", "w", ".", "t", "i", "i", "n", "g", "o", ".", "c", "o", "m", "/", "d", "o", "c", "u", "m", "e", "n", "t", "a", "t", "i", "o", "n", "/">>],
     [id |-> "finnhub", id_text |-> <<"f", "i", "n", "n", "h", "u", "b">>,   \* "https://finnhub.io/docs/api/"
      base_url |-> <<"h", "t", "t", "p", "s", ":", "/", "/", "f", "i", "n", "n", "h", "u", "b", ".", "i", "o", "/", "d", "o", "c", "s", "/", "a", "p", "i", "/">>],
     [id |-> "marketstack", id_text |-> <<"m", "a", "r", "k", "e", "t", "s", "t", "a", "c", "k">>,   \* "https://marketstack.com/documentation"
      base_url |-> <<"h", "t", "t", "p", "s", ":", "/", "/", "m", "a", "r", "k", "e", "t", "s", "t", "a", "c", "k", ".", "c", "o", "m", "/", "d", "o", "c", "u", "m", "e", "n", "t", "a", "t", "i", "o", "n">>] >>

\* text.startswith(prefix)
StartsWith(text, prefix) ==
  Len(text) >= Len(prefix) /\ SubSeq(text, 1, Len(prefix)) = prefix

\* text.split(sep, 1) for a one-character sep: the text when sep does not
\* occur, otherwise the parts before and after its first occurrence.
SplitOnce(text, sep) ==
  IF \A i \in DOMAIN text : text[i] # sep THEN <<text>>
  ELSE LET cut == CHOOSE i \in DOMAIN text :
                    text[i] = sep /\ \A j \in 1..(i - 1) : text[j] # sep
       IN  <<SubSeq(text, 1, cut - 1), SubSeq(text, cut + 1, Len(text))>>

\* text.replace(old, new) for one-character old and new.
Replace(text, old, new) == [i \in DOMAIN text |-> IF text[i] = old THEN new ELSE text[i]]

\* text.lstrip(c): without the leading run of the character c.
RECURSIVE LStrip(_, _)
LStrip(text, c) ==
  IF text # <<>> /\ text[1] = c THEN LStrip(Tail(text), c) ELSE text

\* text.rstrip(c): without the trailing run of the character c.
RECURSIVE RStrip(_, _)
RStrip(text, c) ==
  IF text # <<>> /\ text[Len(text)] = c THEN RStrip(SubSeq(text, 1, Len(text) - 1), c)
  ELSE text

\* text.strip(c)
Strip(text, c) == RStrip(LStrip(text, c), c)

\* urljoin(base, ref) for the references of this model: ref is empty or a
\* relative path without scheme, query, fragment or dot segments, so the
\* result is base for an empty ref and otherwise base up to its last "/"
\* followed by ref.
UrlJoin(base, ref) ==
  IF ref = <<>> THEN base
  ELSE LET last == CHOOSE i \in DOMAIN base :
                     base[i] = "/" /\ \A j \in (i + 1)..Len(base) : base[j] # "/"
       IN  SubSeq(base, 1, last) \o ref

\* config["base_url"] of the entry of api_name.
BaseUrlOf(api_name) ==
  base_urls[CHOOSE i \in DOMAIN base_urls : base_urls[i].id = api_name].base_url

RegistryIds == {API_CONFIGS[i].id : i \in DOMAIN API_CONFIGS}

\* What the network does with a request: a response comes back, requests
\* raises a RequestException, or something else fails while the page is read.
NetworkOutcomes == {"ok", "RequestException", "Exception"}

\* What a read of a resource comes to: the kind of result, the URL that was
\* requested over the network (<<>> when no request was made), the query
\* given to create_provider_recommendation (<<>> when it was not called) and
\* the text returned.
Response(kind, url, q, text) == [kind |-> kind, url |-> url, query |-> q, text |-> text]

\* The part of fetch_api_documentation from requests.get on.
FetchUrl(api_name, path, url, outcome) ==
  IF outcome = "ok"
    THEN Response("documentation", url, <<>>,
                  <<"# ", api_name, " API Documentation", "**Source URL:** ">> \o url)
  ELSE IF outcome = "RequestException"
    THEN Response("request_error", url, <<>>,
                  <<"Error fetching documentation for ", api_name, " at path '">>
                    \o path \o <<"': ">>)
  ELSE Response("unexpected_error", url, <<>>,
                <<"Unexpected error processing documentation for ", api_name, " at path '">>
                  \o path \o <<"': ">>)

\* The URL of the FRED branch: the path without its leading and trailing
\* slashes, inner slashes as hyphens, ".html" appended; the base_url for an
\* empty path or "/".
FredUrl(path) ==
  IF path # <<>> /\ path # <<"/">>
    THEN BaseUrlOf("fred") \o Replace(Strip(path, "/"), "/", "-") \o <<".", "h", "t", "m", "l">>
    ELSE BaseUrlOf("fred")

\* fetch_api_documentation(api_name, path).  config["special_parsing"] is
\* evaluated for "fred" only (the and short-circuits for the other names) and
\* raises KeyError when the entry has no such key; the KeyError is caught by
\* the generic except clause, which returns its message.
fetch_api_documentation(api_name, path, outcome) ==
  IF api_name \notin RegistryIds
    THEN Response("unknown_api_error", <<>>, <<>>,
                  <<"Error: Unknown API '", api_name, "'. Supported APIs: ">>)
  ELSE IF api_name = "fred" /\ "special_parsing" \notin config_keys
    THEN Response("unexpected_error", <<>>, <<>>,
                  <<"Unexpected error processing documentation for ", api_name, " at path '">>
                    \o path \o <<"': ", "'special_parsing'">>)
  ELSE IF api_name = "fred"
    THEN FetchUrl(api_name, path, FredUrl(path), outcome)
  ELSE FetchUrl(api_name, path, UrlJoin(BaseUrlOf(api_name), LStrip(path, "/")), outcome)

HelpText == <<"# Smart Provider Recommendations">>

\* handle_intelligence_queries(query_type)
handle_intelligence_queries(query_type) ==
  IF query_type = <<"r", "e", "c", "o", "m", "m", "e", "n", "d">>
    THEN Response("help", <<>>, <<>>, HelpText)
  ELSE LET q == Replace(query_type, "/", " ")
       IN  Response("recommendation", <<>>, q, create_provider_recommendation(API_CONFIGS, q))

UriScheme == <<"f", "i", "n", "m", "c", "p", ":", "/", "/">>

ClaudeDocsUrl == <<"https://docs.claude.com/en/docs/claude-code/mcp">>

\* The text of an api name: of "providers", "intelligence", "docs" or the key
\* of a registry entry.
NameText(name) ==
  CASE name = "providers" -> <<"p", "r", "o", "v", "i", "d", "e", "r", "s">>
    [] name = "intelligence" -> <<"i", "n", "t", "e", "l", "l", "i", "g", "e", "n", "c", "e">>
    [] name = "docs" -> <<"d", "o", "c", "s">>
    [] OTHER -> base_urls[CHOOSE i \in DOMAIN base_urls : base_urls[i].id = name].id_text

\* handle_read_resource(uri)
handle_read_resource(uri, outcome) ==
  IF ~StartsWith(uri, UriScheme)
    THEN Response("ValueError", <<>>, <<>>, <<"Invalid URI format: ">> \o uri)
  ELSE LET uri_parts == SplitOnce(SubSeq(uri, Len(UriScheme) + 1, Len(uri)), "/")
           api_name == uri_parts[1]
           path == IF Len(uri_parts) > 1 THEN uri_parts[2] ELSE <<>>
           Named(name) == api_name = NameText(name)
       IN  IF Named("providers")
             THEN Response("provider_query", <<>>, <<>>, <<>>)
           ELSE IF Named("intelligence")
             THEN handle_intelligence_queries(path)
           ELSE IF Named("docs")
             THEN IF outcome = "ok"
                    THEN Response("claude_docs", ClaudeDocsUrl, <<>>,
                                  <<"# Claude Code MCP Documentation">>)
                    ELSE Response("claude_docs_error", ClaudeDocsUrl, <<>>,
                                  <<"Error fetching Claude MCP docs: ">>)
           ELSE IF \A name \in RegistryIds : ~Named(name)
             THEN Response("ValueError", <<>>, <<>>, <<"Unknown API: ">> \o api_name)
           ELSE LET name == CHOOSE n \in RegistryIds : Named(n)
                IN  fetch_api_documentation(name, path, outcome)

----------------------------------------------------------------------------
(* Inputs *)

\* The example queries of handle_intelligence_queries' help text.
QueryBitcoin ==
  <<"r", "e", "a", "l", "-", "t", "i", "m", "e", " ", "B", "i", "t", "c", "o", "i", "n",
    " ", "p", "r", "i", "c", "e", "s">>                 \* "real-time Bitcoin prices"

QueryCpi ==
  <<"U", "S", " ", "C", "P", "I", " ", "d", "a", "t", "a", " ", "f", "r", "o", "m",
    " ", "1", "9", "9", "0">>                            \* "US CPI data from 1990"

QueryJapan ==
  <<"J", "a", "p", "a", "n", "e", "s", "e", " ", "u", "n", "e", "m", "p", "l", "o", "y",
    "m", "e", "n", "t", " ", "r", "a", "t", "e">>        \* "Japanese unemployment rate"

QueryFreeEuropean ==
  <<"f", "r", "e", "e", " ", "E", "u", "r", "o", "p", "e", "a", "n", " ", "i", "n", "t",
    "e", "r", "e", "s", "t", " ", "r", "a", "t", "e", "s">>   \* "free European interest rates"

ExampleQueries == {QueryBitcoin, QueryCpi, QueryJapan, QueryFreeEuropean}

\* Fragments from which the other queries are concatenated, without any
\* separator unless the separator is itself a fragment.
QueryFragments ==
  { <<" ">>, <<"U", "S">>, <<"u">>, <<"s">>, <<"e", "u">>,
    <<"g", "l", "o", "b", "a", "l">>, <<"C", "P", "I">>,
    <<"f", "r", "e", "e">>, <<"A", "A", "P", "L">>, <<"h", "o", "m", "e">> }

RECURSIVE Concatenations(_)
Concatenations(n) ==
  IF n = 0 THEN {<<>>}
  ELSE LET shorter == Concatenations(n - 1)
       IN  shorter \cup {q \o f : q \in shorter, f \in QueryFragments}

\* Queries that state preferences: any of the words " free", " fast",
\* " official" and " all", after nothing or after "CPI".
PreferenceWords ==
  << <<" ", "f", "r", "e", "e">>, <<" ", "f", "a", "s", "t">>,
     <<" ", "o", "f", "f", "i", "c", "i", "a", "l">>, <<" ", "a", "l", "l">> >>

RECURSIVE WordsOf(_, _)
WordsOf(chosen, w) ==
  IF w > Len(PreferenceWords) THEN <<>>
  ELSE (IF w \in chosen THEN PreferenceWords[w] ELSE <<>>) \o WordsOf(chosen, w + 1)

PreferenceQueries ==
  { base \o WordsOf(chosen, 1) :
      base \in {<<>>, <<"C", "P", "I">>}, chosen \in SUBSET DOMAIN PreferenceWords }

\* Queries with upper-case runs next to digits, underscores, punctuation and
\* lower-case letters, with runs of more than five letters and with repeats:
\* "US AAPL-GE X X", "AAPL1 A_B 2GE", "ABCDEF Aapl aAPL", "JSON,IBM;CSV".
SymbolQueries ==
  { <<"U", "S", " ", "A", "A", "P", "L", "-", "G", "E", " ", "X", " ", "X">>,
    <<"A", "A", "P", "L", "1", " ", "A", "_", "B", " ", "2", "G", "E">>,
    <<"A", "B", "C", "D", "E", "F", " ", "A", "a", "p", "l", " ", "a", "A", "P", "L">>,
    <<"J", "S", "O", "N", ",", "I", "B", "M", ";", "C", "S", "V">> }

Queries ==
  ExampleQueries \cup PreferenceQueries \cup SymbolQueries \cup Concatenations(MaxWords)

TopNs == (-1..MaxTopN) \cup {DefaultTopN}

\* The URIs the server is asked to read.
RecommendPath == <<"r", "e", "c", "o", "m", "m", "e", "n", "d">>

\* Queries written as paths, with "/" between their words.
SlashQueries ==
  { <<"U", "S", "/", "C", "P", "I">>,
    <<"f", "r", "e", "e", "/", "e", "u", "/", "C", "P", "I">> }

RoutedQueries == ExampleQueries \cup SlashQueries \cup Concatenations(MaxWords)

\* Documentation paths: none, "/", "series", "series/observations",
\* "/series/".
DocPaths ==
  { <<>>, <<"/">>, <<"s", "e", "r", "i", "e", "s">>,
    <<"s", "e", "r", "i", "e", "s", "/", "o", "b", "s", "e", "r", "v", "a", "t", "i", "o", "n", "s">>,
    <<"/", "s", "e", "r", "i", "e", "s", "/">> }

Uri(name_text, path) == UriScheme \o name_text \o <<"/">> \o path

Uris ==
  { UriScheme \o NameText("intelligence") \o <<"/">> \o RecommendPath }
  \cup { Uri(NameText("intelligence"), RecommendPath \o <<"/">> \o q) : q \in RoutedQueries }
  \cup { Uri(NameText("intelligence"), q) : q \in ExampleQueries }
  \cup { UriScheme \o NameText(name) : name \in {"fred", "sec", "docs", "providers"} }
  \cup { Uri(NameText(name), path) : name \in {"fred", "sec"}, path \in DocPaths }
  \cup { Uri(NameText("providers"), <<"l", "i", "s", "t">>),
         Uri(<<"n", "o", "n", "e">>, <<"x">>),
         <<"h", "t", "t", "p", ":", "/", "/", "f", "r", "e", "d">> }

\* A classification handed to match_providers by a caller that built it itself.
MakeClassification(data_types, geography, preferences) ==
  LET classification ==
        [original_query   |-> <<>>,
         data_types       |-> data_types,
         geography        |-> geography,
         preferences      |-> preferences,
         specific_symbols |-> {}]
  IN  [original_query   |-> <<>>,
       data_types       |-> data_types,
       geography        |-> geography,
       preferences      |-> preferences,
       specific_symbols |-> {},
       reasoning        |-> _generate_reasoning(classification)]

ClassificationInputs ==
  {classify_query(q) : q \in ExampleQueries \cup {<<>>}}
  \cup
  {MakeClassification(d, g, p) :
     d \in {<<>>, <<"crypto">>, <<"inflation", "interest_rates">>},
     g \in {<<>>, <<"Global">>, <<"US">>, <<"EU">>},
     p \in {<<>>, <<"free">>, <<"comprehensive">>,
            <<"free", "fast", "comprehensive", "official">>}}

\* Provider records of the probe registries: every combination of these
\* data_types and free_tier values; the other fields are the same in all of
\* them.  An empty data_types is what config.get("data_types", []) reads from
\* a record without that key.
ProbeShapes ==
  [data_types : {<<>>, <<"crypto">>, <<"interest_rates", "inflation">>},
   free_tier : BOOLEAN]

ProbeIds == <<"fred", "polygon", "ecb", "yahoo">>

ProbeResponseTime == <<"~", "5", "0", "0", "m", "s">>

ProbeConfig(i, shape) ==
  [id                  |-> ProbeIds[i],
   name                |-> "Probe",
   data_types          |-> shape.data_types,
   geographic_coverage |-> <<"US">>,
   requires_api_key    |-> FALSE,
   free_tier           |-> shape.free_tier,
   local_available     |-> FALSE,
   response_time       |-> ProbeResponseTime]

ProbeRegistries ==
  UNION { { [i \in 1..n |-> ProbeConfig(i, shapes[i])] : shapes \in [1..n -> ProbeShapes] }
          : n \in 0..MaxProviders }

----------------------------------------------------------------------------
(* State *)

VARIABLES
  providers,        \* ProviderMatcher.providers: the registry
  pc,               \* "init", "classified", "matched" or "recommended"
  query,            \* the query of the current request
  classification,   \* the classification of the current request
  top_n,            \* the top_n of the last match_providers call
  matches,          \* the list the last match_providers call returned
  recommendation,   \* the text the request returned, <<>> before it returns
  calls,            \* the locals of each of two overlapping requests
  resource          \* the URI the server was asked to read and what the read came to

vars ==
  <<providers, pc, query, classification, top_n, matches, recommendation, calls,
    resource>>

\* The value of resource before any URI is read.
NoResource == [uri |-> <<>>, response |-> Response("none", <<>>, <<>>, <<>>)]

\* The value of classification before any query is classified.
NoClassification ==
  [original_query |-> <<>>, data_types |-> <<>>, geography |-> <<>>,
   preferences |-> <<>>, specific_symbols |-> {}, reasoning |-> <<>>]

Init ==
  /\ providers = API_CONFIGS
  /\ pc = "init"
  /\ query = <<>>
  /\ classification = NoClassification
  /\ top_n = 0
  /\ matches = <<>>
  /\ recommendation = <<>>
  /\ calls = <<>>
  /\ resource = NoResource

\* classifier.classify_query(query).  The first request classifies any query
\* of Queries; a further request, after the previous one has returned its
\* recommendation, classifies one of ExampleQueries.
ClassifyQuery(q) ==
  /\ pc = "init" \/ (pc = "recommended" /\ q \in ExampleQueries)
  /\ query' = q
  /\ classification' = classify_query(q)
  /\ pc' = "classified"
  /\ top_n' = 0
  /\ matches' = <<>>
  /\ recommendation' = <<>>
  /\ UNCHANGED <<providers, calls, resource>>

\* A faulty variant of MatchProviders: the providers that do not match are
\* removed from the registry while it is scanned.
MatchProvidersDropsUnmatched(n) ==
  LET Positive(config) == _calculate_match_score(classification, config, config.id) > 0
  IN  /\ pc = "classified"
      /\ top_n' = n
      /\ matches' = match_providers(providers, classification, n)
      /\ pc' = "matched"
      /\ providers' = SelectSeq(providers, Positive)
      /\ UNCHANGED <<query, classification, recommendation, calls, resource>>

\* matcher.match_providers(classification, top_n)
MatchProviders(n) ==
  /\ pc = "classified"
  /\ top_n' = n
  /\ matches' = match_providers(providers, classification, n)
  /\ pc' = "matched"
  /\ UNCHANGED <<providers, query, classification, recommendation, calls, resource>>

\* The rest of create_provider_recommendation, after classify_query and
\* match_providers(classification, top_n=5): the text is built and returned.
FormatRecommendation ==
  /\ pc = "matched"
  /\ top_n = DefaultTopN
  /\ recommendation' = RecommendationText(query, classification, matches)
  /\ pc' = "recommended"
  /\ UNCHANGED <<providers, query, classification, top_n, matches, calls, resource>>

Next ==
  \/ \E q \in Queries : ClassifyQuery(q)
  \/ \E n \in TopNs : MatchProviders(n)
  \/ FormatRecommendation

Spec == Init /\ [][Next]_vars

\* The matcher used as a library: any probe registry, any classification of
\* ClassificationInputs.
InitLib ==
  /\ providers \in ProbeRegistries
  /\ classification \in ClassificationInputs
  /\ query = classification.original_query
  /\ pc = "classified"
  /\ top_n = 0
  /\ matches = <<>>
  /\ recommendation = <<>>
  /\ calls = <<>>
  /\ resource = NoResource

NextLib == \E n \in TopNs : MatchProviders(n)

SpecLib == InitLib /\ [][NextLib]_vars

\* The matcher over a registry of one provider record, for every combination
\* of the fields that _get_match_reasons reads.
RecordShapes ==
  [data_types          : {<<>>, <<"crypto">>, <<"interest_rates", "inflation">>},
   geographic_coverage : {<<"US">>, <<"Global">>, <<"US", "Global">>, <<"Japan">>},
   requires_api_key    : BOOLEAN,
   free_tier           : BOOLEAN,
   local_available     : BOOLEAN]

RecordConfig(shape) ==
  [id                  |-> "fred",
   name                |-> "Probe",
   data_types          |-> shape.data_types,
   geographic_coverage |-> shape.geographic_coverage,
   requires_api_key    |-> shape.requires_api_key,
   free_tier           |-> shape.free_tier,
   local_available     |-> shape.local_available,
   response_time       |-> ProbeResponseTime]

InitRecord ==
  /\ providers \in { <<RecordConfig(shape)>> : shape \in RecordShapes }
  /\ classification \in ClassificationInputs
  /\ query = classification.original_query
  /\ pc = "classified"
  /\ top_n = 0
  /\ matches = <<>>
  /\ recommendation = <<>>
  /\ calls = <<>>
  /\ resource = NoResource

SpecRecord == InitRecord /\ [][NextLib]_vars

\* The resource server: one read of a URI, with whatever the network does
\* when the read makes a request.
InitServer ==
  /\ providers = API_CONFIGS
  /\ pc = "init"
  /\ query = <<>>
  /\ classification = NoClassification
  /\ top_n = 0
  /\ matches = <<>>
  /\ recommendation = <<>>
  /\ calls = <<>>
  /\ resource = NoResource

\* handle_read_resource(uri)
ReadResource(uri, outcome) ==
  /\ resource = NoResource
  /\ resource' = [uri |-> uri, response |-> handle_read_resource(uri, outcome)]
  /\ UNCHANGED <<providers, pc, query, classification, top_n, matches, recommendation,
                 calls>>

NextServer == \E uri \in Uris, outcome \in NetworkOutcomes : ReadResource(uri, outcome)

SpecServer == InitServer /\ [][NextServer]_vars

\* Two create_provider_recommendation calls whose steps interleave.  Each call
\* has its own classifier, matcher, classification and matches (they are
\* locals of the function); both matchers hold the one API_CONFIGS object.
Requests == {1, 2}

ConcurrentQueries == ExampleQueries \cup {<<>>, <<"h", "o", "m", "e">>}

IdleCall ==
  [pc |-> "idle", query |-> <<>>, classification |-> NoClassification,
   matches |-> <<>>, text |-> <<>>, overlapped |-> FALSE]

InFlight(r) == calls[r].pc \in {"classified", "matched"}

InitConcurrent ==
  /\ providers = API_CONFIGS
  /\ pc = "init"
  /\ query = <<>>
  /\ classification = NoClassification
  /\ top_n = 0
  /\ matches = <<>>
  /\ recommendation = <<>>
  /\ calls = [r \in Requests |-> IdleCall]
  /\ resource = NoResource

\* classifier = QueryClassifier(); matcher = ProviderMatcher();
\* classification = classifier.classify_query(query)
CallClassify(r, q) ==
  /\ calls[r].pc = "idle"
  /\ calls' = [calls EXCEPT ![r] =
                 [@ EXCEPT !.pc = "classified", !.query = q,
                           !.classification = classify_query(q),
                           !.overlapped = \E o \in Requests \ {r} : InFlight(o)]]
  /\ UNCHANGED <<providers, pc, query, classification, top_n, matches, recommendation, resource>>

\* A faulty variant of CallMatch: the providers that do not match are removed
\* from the shared registry while it is scanned.
CallMatchDropsUnmatched(r) ==
  LET c == calls[r].classification
      Positive(config) == _calculate_match_score(c, config, config.id) > 0
  IN  /\ calls[r].pc = "classified"
      /\ calls' = [calls EXCEPT ![r] =
                     [@ EXCEPT !.pc = "matched",
                               !.matches = match_providers(providers, c, DefaultTopN)]]
      /\ providers' = SelectSeq(providers, Positive)
      /\ UNCHANGED <<pc, query, classification, top_n, matches, recommendation, resource>>

\* matches = matcher.match_providers(classification, top_n=5)
CallMatch(r) ==
  /\ calls[r].pc = "classified"
  /\ calls' = [calls EXCEPT ![r] =
                 [@ EXCEPT !.pc = "matched",
                           !.matches = match_providers(providers, calls[r].classification,
                                                       DefaultTopN)]]
  /\ UNCHANGED <<providers, pc, query, classification, top_n, matches, recommendation, resource>>

\* The text is built from the call's own classification and matches and
\* returned.
CallFormat(r) ==
  /\ calls[r].pc = "matched"
  /\ calls' = [calls EXCEPT ![r] =
                 [@ EXCEPT !.pc = "returned",
                           !.text = RecommendationText(calls[r].query,
                                                       calls[r].classification,
                                                       calls[r].matches)]]
  /\ UNCHANGED <<providers, pc, query, classification, top_n, matches, recommendation, resource>>

NextConcurrent ==
  \E r \in Requests :
    \/ \E q \in ConcurrentQueries : CallClassify(r, q)
    \/ CallMatch(r)
    \/ CallFormat(r)

SpecConcurrent == InitConcurrent /\ [][NextConcurrent]_vars

----------------------------------------------------------------------------
(* Properties *)

\* The position of a provider id in the registry.
RegistryIndex(provider_id) ==
  CHOOSE i \in DOMAIN providers : providers[i].id = provider_id

\* The score the matcher computes for the i-th provider of the registry.
ScoreOf(c, i) == _calculate_match_score(c, providers[i], providers[i].id)

Returned(provider_id) == \E m \in DOMAIN matches : matches[m].provider = provider_id

\* C1: when the classification has at least one data type, a provider whose
\* data_types share no tag with it (an empty data_types included) is not in
\* the list match_providers returns.
C1_ExclusionLaw ==
  pc = "matched" =>
    \A i \in DOMAIN providers :
      (/\ classification.data_types # <<>>
       /\ ToSet(providers[i].data_types) \cap ToSet(classification.data_types) = {})
      => ~Returned(providers[i].id)

\* C2: two returned providers with equal scores appear in registry order.
C2_RankingStability ==
  pc = "matched" =>
    \A a, b \in DOMAIN matches :
      (a < b /\ matches[a].score = matches[b].score)
      => RegistryIndex(matches[a].provider) < RegistryIndex(matches[b].provider)

C2_Witness ==
  /\ pc = "matched"
  /\ \E a, b \in DOMAIN matches :
       /\ a < b
       /\ matches[a].score = matches[b].score
       /\ \E c \in DOMAIN matches : matches[c].score # matches[a].score

\* C3: for top_n >= 0 the returned list has at most top_n entries, and none
\* for top_n = 0.
C3_TopNBound ==
  (pc = "matched" /\ top_n >= 0) =>
    /\ Len(matches) <= top_n
    /\ (top_n = 0 => matches = <<>>)

C3_Witness ==
  /\ pc = "matched"
  /\ top_n >= 1
  /\ Len(matches) = top_n
  /\ Len(ScoredMatches(providers, classification)) > top_n

\* The classification with one more data-type tag at the end of data_types.
WithDataType(c, tag) == [c EXCEPT !.data_types = Append(@, tag)]

\* C4: adding to the classification a data-type tag that a provider offers
\* never lowers that provider's score.
C4_Monotonicity ==
  pc # "init" =>
    \A i \in DOMAIN providers :
      \A tag \in ToSet(providers[i].data_types) \ ToSet(classification.data_types) :
        ScoreOf(WithDataType(classification, tag), i) >= ScoreOf(classification, i)

C4_Witness ==
  /\ pc = "matched"
  /\ classification.data_types # <<>>
  /\ \E i \in DOMAIN providers :
       \E tag \in ToSet(providers[i].data_types) \ ToSet(classification.data_types) :
         /\ ScoreOf(classification, i) > 0
         /\ ScoreOf(WithDataType(classification, tag), i) > ScoreOf(classification, i)

\* Two provider records that agree on every field but free_tier (the id is
\* the registry key of a record, not one of its fields).
SameExceptFreeTier(a, b) ==
  [a EXCEPT !.free_tier = TRUE, !.id = ""] = [b EXCEPT !.free_tier = TRUE, !.id = ""]

\* C5 as claimed: for the classification of "free European interest rates",
\* of any two provider records identical except for free_tier, the one with
\* free_tier = true scores strictly higher.
C5_FreeTierStrictlyHigher ==
  (pc = "matched" /\ query = QueryFreeEuropean) =>
    \A i, j \in DOMAIN providers :
      (/\ SameExceptFreeTier(providers[i], providers[j])
       /\ providers[i].free_tier
       /\ ~providers[j].free_tier)
      => ScoreOf(classification, i) > ScoreOf(classification, j)

\* C5 as amended: the record with free_tier = true scores strictly higher
\* unless the records' data_types are non-empty and share no tag with the
\* query's data types, in which case both score 0.
C5_FreeTierHigherUnlessSkipped ==
  (pc = "matched" /\ query = QueryFreeEuropean) =>
    \A i, j \in DOMAIN providers :
      (/\ SameExceptFreeTier(providers[i], providers[j])
       /\ providers[i].free_tier
       /\ ~providers[j].free_tier)
      => IF /\ providers[i].data_types # <<>>
            /\ ToSet(providers[i].data_types) \cap ToSet(classification.data_types) = {}
           THEN ScoreOf(classification, i) = 0 /\ ScoreOf(classification, j) = 0
           ELSE ScoreOf(classification, i) > ScoreOf(classification, j)

C5_Witness ==
  /\ pc = "matched"
  /\ query = QueryFreeEuropean
  /\ Len(providers) = 2
  /\ SameExceptFreeTier(providers[1], providers[2])
  /\ providers[1].free_tier /\ ~providers[2].free_tier
  /\ Len(matches) = 2
  /\ matches[1].provider = providers[1].id
  /\ matches[1].score > matches[2].score

\* C6 as claimed: the data types of "real-time Bitcoin prices" are exactly
\* ["crypto"].
C6_BitcoinOnlyCrypto ==
  (pc # "init" /\ query = QueryBitcoin) => classification.data_types = <<"crypto">>

\* C6 as amended: the data types of "real-time Bitcoin prices" are exactly
\* ["stocks", "crypto"]: "price" occurs in "prices" and "bitcoin" in "bitcoin".
C6_BitcoinStocksAndCrypto ==
  (pc # "init" /\ query = QueryBitcoin) =>
    classification.data_types = <<"stocks", "crypto">>

C6_Witness ==
  /\ pc = "classified"
  /\ query = QueryBitcoin
  /\ Contains(Lower(query), <<"p", "r", "i", "c", "e">>)
  /\ "stocks" \in ToSet(classification.data_types)

\* C7: the preferences of "real-time Bitcoin prices" are empty; "real-time"
\* does not set the fast preference.
C7_RealTimeIsNotFast ==
  (pc # "init" /\ query = QueryBitcoin) => classification.preferences = <<>>

C7_Witness ==
  /\ pc = "classified"
  /\ query = QueryBitcoin
  /\ Contains(Lower(query), <<"r", "e", "a", "l", "-", "t", "i", "m", "e">>)
  /\ "fast" \notin ToSet(classification.preferences)

\* C8: "US CPI data from 1990" has data types exactly ["inflation"] and
\* geography exactly ["US"].
C8_UsCpi ==
  (pc # "init" /\ query = QueryCpi) =>
    /\ classification.data_types = <<"inflation">>
    /\ classification.geography = <<"US">>

C8_Witness ==
  /\ pc = "classified"
  /\ query = QueryCpi
  /\ classification.data_types # <<>>
  /\ classification.geography # <<"Global">>

\* The geography tags with a trigger that occurs in the lower-cased query.
GeographyHits(q) ==
  { geographic_keywords[e].tag :
      e \in { d \in DOMAIN geographic_keywords :
                \E k \in DOMAIN geographic_keywords[d].keywords :
                  Contains(Lower(q), geographic_keywords[d].keywords[k]) } }

\* C9: the geography of every classified query is non-empty: ["Global"] when
\* no geography tag is detected, otherwise the detected tags, each once.
C9_GeographyNonEmpty ==
  pc # "init" =>
    /\ classification.geography # <<>>
    /\ GeographyHits(query) = {} => classification.geography = <<"Global">>
    /\ GeographyHits(query) # {} =>
         /\ ToSet(classification.geography) = GeographyHits(query)
         /\ Len(classification.geography) = Cardinality(GeographyHits(query))

C9_Witness ==
  /\ pc = "classified"
  /\ query # <<>>
  /\ GeographyHits(query) = {}
  /\ classification.geography = <<"Global">>

\* C10: the empty query has no data types, no preferences, no symbols and
\* the geography ["Global"].
C10_EmptyQuery ==
  (pc # "init" /\ query = <<>>) =>
    /\ classification.data_types = <<>>
    /\ classification.preferences = <<>>
    /\ classification.geography = <<"Global">>
    /\ classification.specific_symbols = {}

C10_Witness ==
  /\ pc = "classified"
  /\ query = <<>>
  /\ classification.original_query = <<>>
  /\ classification.geography = <<"Global">>

\* A line that opens a numbered provider entry.
IsEntryHeading(line) == line # <<>> /\ line[1] = "### "

HasLine(text, line) == \E l \in DOMAIN text : text[l] = line

\* C11: every request returns a text, and when match_providers returns no
\* match the text has the line "No matching providers found for this query."
\* and no numbered provider entry.
C11_RecommendationText ==
  /\ (pc = "matched" /\ top_n = DefaultTopN) => ENABLED FormatRecommendation
  /\ pc = "recommended" =>
       /\ recommendation # <<>>
       /\ recommendation[1] = <<"# Provider Recommendation for Query">>
       /\ matches = <<>> =>
            /\ HasLine(recommendation, NoMatchLine)
            /\ \A l \in DOMAIN recommendation : ~IsEntryHeading(recommendation[l])

C11_Witness ==
  /\ pc = "recommended"
  /\ matches = <<>>
  /\ classification.data_types = <<"housing">>
  /\ HasLine(recommendation, NoMatchLine)

\* C13: no call changes the registry, and match_providers and the formatting
\* that follows it leave the classification as classify_query returned it.
C13_RegistryReadOnly ==
  [][/\ providers' = providers
     /\ pc' \in {"matched", "recommended"} => classification' = classification]_vars

C13_Witness ==
  /\ pc = "recommended"
  /\ providers = API_CONFIGS
  /\ matches # <<>>
  /\ Len(matches) < Len(providers)
  /\ classification.data_types # <<>>

\* C14: whatever the interleaving of the steps of two recommendation calls,
\* each call returns the text the same call returns when it runs alone on the
\* registry.
C14_NoInterference ==
  \A r \in Requests :
    calls[r].pc = "returned" =>
      calls[r].text = create_provider_recommendation(API_CONFIGS, calls[r].query)

C14_Witness ==
  /\ \A r \in Requests : calls[r].pc = "returned"
  /\ \E r \in Requests : calls[r].overlapped
  /\ calls[1].query = QueryBitcoin
  /\ calls[2].query = QueryCpi
  /\ calls[1].text # calls[2].text
  /\ calls[1].matches # <<>>
  /\ calls[2].matches # <<>>

\* C15: a returned provider that neither covers "Global" nor shares a region
\* with the query geography has the 0.2 fallback in its score exactly when the
\* query geography is empty or is <<"Global">>, and no geography bonus when
\* the query geography holds "Global" together with another region.
C15_GeographyFallback ==
  pc = "matched" =>
    \A m \in DOMAIN matches :
      LET config == providers[RegistryIndex(matches[m].provider)]
          bonus == matches[m].score - DataTypeTerm(classification, config)
                     - PreferenceTerm(classification, config, config.id)
      IN  (/\ "Global" \notin ToSet(config.geographic_coverage)
           /\ ToSet(config.geographic_coverage) \cap ToSet(classification.geography) = {})
          => bonus = (IF classification.geography \in {<<>>, <<"Global">>} THEN 20 ELSE 0)

\* C16: the score of a returned provider is its score under the same
\* classification without preferences, plus every preference bonus that
\* applies: 0.5 and 0.3 for free, 1.0 and 0.5 for fast, 0.8 for official and
\* 0.05 per data type of the provider for comprehensive.
C16_PreferenceBonuses ==
  pc = "matched" =>
    \A m \in DOMAIN matches :
      LET config == providers[RegistryIndex(matches[m].provider)]
          preferred == ToSet(classification.preferences)
          plain == [classification EXCEPT !.preferences = <<>>]
          latency == /\ Contains(config.response_time, <<"m", "s">>)
                     /\ \/ Contains(config.response_time, <<"<", "1", "0", "0">>)
                        \/ Contains(config.response_time, <<"<", "5", "0">>)
                        \/ Contains(config.response_time, <<"<", "1", "0">>)
          government == config.id \in {"fred", "sec", "bls", "treasury", "ecb", "imf",
                                       "worldbank", "oecd", "estat"}
          Bonus(applies, amount) == IF applies THEN amount ELSE 0
      IN  matches[m].score =
            _calculate_match_score(plain, config, config.id)
            + Bonus("free" \in preferred /\ config.free_tier, 50)
            + Bonus("free" \in preferred /\ ~config.requires_api_key, 30)
            + Bonus("fast" \in preferred /\ config.local_available, 100)
            + Bonus("fast" \in preferred /\ latency, 50)
            + Bonus("official" \in preferred /\ government, 80)
            + Bonus("comprehensive" \in preferred, 5 * Len(config.data_types))

C16_Witness ==
  /\ pc = "matched"
  /\ ToSet(classification.preferences) = {"free", "fast", "official", "comprehensive"}
  /\ classification.data_types = <<"inflation">>
  /\ \E m \in DOMAIN matches :
       LET config == providers[RegistryIndex(matches[m].provider)]
       IN  /\ config.id = "fred"
           /\ config.local_available
           /\ config.free_tier
           /\ config.requires_api_key
           /\ matches[m].score
                = _calculate_match_score([classification EXCEPT !.preferences = <<>>],
                                         config, config.id)
                  + 50 + 100 + 50 + 80 + 5 * Len(config.data_types)

\* The tags of a keyword table with a trigger that occurs somewhere in the
\* lower-cased query, inside a longer word or not.
TagsWithTrigger(table, q) ==
  LET lowered == Lower(q)
      Occurs(keyword) ==
        \E i \in 1..Len(lowered) :
          /\ i + Len(keyword) - 1 <= Len(lowered)
          /\ SubSeq(lowered, i, i + Len(keyword) - 1) = keyword
  IN  { table[e].tag :
          e \in { d \in DOMAIN table :
                    \E k \in DOMAIN table[d].keywords : Occurs(table[d].keywords[k]) } }

\* The position of a tag in a keyword table.
TagIndex(table, tag) == CHOOSE e \in DOMAIN table : table[e].tag = tag

\* The tags of a list are in the declared order of the table, each once.
InTableOrder(table, tags) ==
  \A a, b \in DOMAIN tags : a < b => TagIndex(table, tags[a]) < TagIndex(table, tags[b])

\* C17 as stated: in each of the three tables a tag is in the classification
\* exactly when one of its triggers occurs in the lower-cased query, and the
\* tags are listed in table order.
C17_DetectionAllTables ==
  pc # "init" =>
    /\ ToSet(classification.data_types) = TagsWithTrigger(data_type_keywords, query)
    /\ ToSet(classification.geography) = TagsWithTrigger(geographic_keywords, query)
    /\ ToSet(classification.preferences) = TagsWithTrigger(preference_keywords, query)
    /\ InTableOrder(data_type_keywords, classification.data_types)
    /\ InTableOrder(geographic_keywords, classification.geography)
    /\ InTableOrder(preference_keywords, classification.preferences)

\* C17, amended: as above for data types and preferences; for geography the
\* equivalence holds when some geography trigger occurs in the query, and the
\* geography is <<"Global">> when none does.
C17_DetectionWithDefault ==
  pc # "init" =>
    /\ ToSet(classification.data_types) = TagsWithTrigger(data_type_keywords, query)
    /\ ToSet(classification.preferences) = TagsWithTrigger(preference_keywords, query)
    /\ IF TagsWithTrigger(geographic_keywords, query) # {}
         THEN ToSet(classification.geography) = TagsWithTrigger(geographic_keywords, query)
         ELSE classification.geography = <<"Global">>
    /\ InTableOrder(data_type_keywords, classification.data_types)
    /\ InTableOrder(geographic_keywords, classification.geography)
    /\ InTableOrder(preference_keywords, classification.preferences)

C17_Witness ==
  /\ pc = "classified"
  /\ query = <<"e", "u", "U", "S">>
  /\ classification.geography = <<"US", "EU">>

\* The runs of 1 to 5 upper-case letters of a text that are whole words: no
\* letter, digit or underscore stands directly before or after the run.
WholeWordUpperRuns(text) ==
  { SubSeq(text, i, j) :
      <<i, j>> \in { r \in (DOMAIN text) \X (DOMAIN text) :
                       /\ r[1] <= r[2]
                       /\ r[2] - r[1] + 1 <= 5
                       /\ \A p \in r[1]..r[2] : IsUpper(text[p])
                       /\ r[1] = 1 \/ ~IsWordChar(text[r[1] - 1])
                       /\ r[2] = Len(text) \/ ~IsWordChar(text[r[2] + 1]) } }

\* C18: specific_symbols is the set of whole-word runs of 1 to 5 upper-case
\* letters of the query as typed, without the nine stop-listed words.
C18_SymbolExtraction ==
  pc # "init" =>
    classification.specific_symbols
      = WholeWordUpperRuns(query)
          \ { <<"U", "S">>, <<"U", "K">>, <<"E", "U">>, <<"G", "D", "P">>,
              <<"C", "P", "I">>, <<"A", "P", "I">>, <<"R", "E", "S", "T">>,
              <<"J", "S", "O", "N">>, <<"C", "S", "V">> }

C18_Witness ==
  /\ pc = "classified"
  /\ Contains(query, <<"U", "S", " ", "A", "A", "P", "L", "-", "G", "E", " ", "X", " ", "X">>)
  /\ classification.specific_symbols = { <<"A", "A", "P", "L">>, <<"G", "E">>, <<"X">> }

\* The clauses of a reasoning text: the runs of atoms between separators.
RECURSIVE ClausesOf(_)
ClausesOf(text) ==
  IF \A a \in DOMAIN text : text[a] # " -> " THEN <<text>>
  ELSE LET cut == CHOOSE a \in DOMAIN text :
                    text[a] = " -> " /\ \A b \in 1..(a - 1) : text[b] # " -> "
       IN  <<SubSeq(text, 1, cut - 1)>> \o ClausesOf(SubSeq(text, cut + 1, Len(text)))

\* The rank of a clause in the fixed order, from the phrase it starts with;
\* 0 for a clause that is none of the five.
ClauseRank(clause) ==
  IF clause = <<>> THEN 0
  ELSE CASE clause[1] \in {"User is looking for ",
                           "No specific data type identified, will search broadly"} -> 1
         [] clause[1] = "Geographic focus: " -> 2
         [] clause[1] = "Prefers free/no API key providers" -> 3
         [] clause[1] = "Prefers low-latency providers (local data if available)" -> 4
         [] clause[1] = "Prefers official/government sources" -> 5
         [] OTHER -> 0

\* C19: the reasoning is the data-type clause, then the geography clause when
\* the geography is not <<"Global">>, then the free, fast and official clauses
\* of the preferences that are present, joined by the separator; nothing else.
C19_ReasoningTrace ==
  pc # "init" =>
    LET clauses == ClausesOf(classification.reasoning)
        ranks == [k \in DOMAIN clauses |-> ClauseRank(clauses[k])]
        Has(rank) == \E k \in DOMAIN ranks : ranks[k] = rank
        preferred == ToSet(classification.preferences)
    IN  /\ \A k \in DOMAIN ranks : ranks[k] # 0
        /\ \A a, b \in DOMAIN ranks : a < b => ranks[a] < ranks[b]
        /\ clauses[1] =
             (IF classification.data_types # <<>>
                THEN <<"User is looking for ">> \o JoinAtoms(classification.data_types, ", ")
                       \o <<" data">>
                ELSE <<"No specific data type identified, will search broadly">>)
        /\ Has(2) <=> classification.geography # <<"Global">>
        /\ Has(2) => clauses[2] = <<"Geographic focus: ">>
                                    \o JoinAtoms(classification.geography, ", ")
        /\ Has(3) <=> "free" \in preferred
        /\ Has(4) <=> "fast" \in preferred
        /\ Has(5) <=> "official" \in preferred
        /\ \A k \in DOMAIN clauses : ranks[k] \in 3..5 => Len(clauses[k]) = 1

C19_Witness ==
  /\ pc = "classified"
  /\ classification.data_types = <<"inflation">>
  /\ classification.geography = <<"Global">>
  /\ ToSet(classification.preferences) = {"free", "fast", "comprehensive", "official"}
  /\ Len(ClausesOf(classification.reasoning)) = 4

\* The rank of a match reason in the order of the list: the data-type reason,
\* one of the two geography reasons, the local-database reason, one of the two
\* free-access reasons.
ReasonRank(reason) ==
  CASE reason.kind = "Provides" -> 1
    [] reason.kind \in {"Covers", "Global coverage"} -> 2
    [] reason.kind = "Local database available (<10ms)" -> 3
    [] reason.kind \in {"Free tier available", "No API key required"} -> 4
    [] OTHER -> 0

\* C20: the match reasons of every returned provider are, in this order, at
\* most one data-type reason, at most one geography reason, the local-database
\* reason and at most one free-access reason, each present exactly under its
\* condition on the provider record and the query's data types and geography.
C20_MatchReasons ==
  pc = "matched" =>
    \A m \in DOMAIN matches :
      LET config == providers[RegistryIndex(matches[m].provider)]
          reasons == matches[m].match_reasons
          Has(kind) == \E k \in DOMAIN reasons : reasons[k].kind = kind
          TagsOf(kind) == { reasons[k].tags : k \in { j \in DOMAIN reasons : reasons[j].kind = kind } }
          types == ToSet(classification.data_types) \cap ToSet(config.data_types)
          regions == ToSet(classification.geography) \cap ToSet(config.geographic_coverage)
      IN  /\ \A k \in DOMAIN reasons : ReasonRank(reasons[k]) # 0
          /\ \A a, b \in DOMAIN reasons :
               a < b => ReasonRank(reasons[a]) < ReasonRank(reasons[b])
          /\ Has("Provides") <=> types # {}
          /\ Has("Provides") => TagsOf("Provides") = {types}
          /\ Has("Covers") <=> regions # {}
          /\ Has("Covers") => TagsOf("Covers") = {regions}
          /\ Has("Global coverage")
               <=> (regions = {} /\ "Global" \in ToSet(config.geographic_coverage))
          /\ Has("Local database available (<10ms)") <=> config.local_available
          /\ Has("Free tier available") <=> config.free_tier
          /\ Has("No API key required") <=> (~config.free_tier /\ ~config.requires_api_key)

C20_Witness ==
  /\ pc = "matched"
  /\ classification.preferences # <<>>
  /\ \E m \in DOMAIN matches :
       LET config == providers[RegistryIndex(matches[m].provider)]
       IN  /\ config.free_tier
           /\ ~config.requires_api_key
           /\ config.local_available
           /\ [r \in DOMAIN matches[m].match_reasons |-> matches[m].match_reasons[r].kind]
                = <<"Provides", "Global coverage", "Local database available (<10ms)",
                    "Free tier available">>

\* C21: the returned list is in non-increasing score order, no provider left
\* out of it scores strictly more than a provider in it, and for top_n >= 0
\* it holds top_n providers or, when fewer score above 0, all of those.
C21_RankingAndTruncation ==
  pc = "matched" =>
    LET positive == {i \in DOMAIN providers : ScoreOf(classification, i) > 0}
    IN  /\ \A a, b \in DOMAIN matches : a < b => matches[a].score >= matches[b].score
        /\ \A i \in DOMAIN providers :
             ~Returned(providers[i].id) =>
               \A m \in DOMAIN matches : ScoreOf(classification, i) <= matches[m].score
        /\ \A m \in DOMAIN matches :
             matches[m].score = ScoreOf(classification, RegistryIndex(matches[m].provider))
        /\ top_n >= 0 => Len(matches) = Min(top_n, Cardinality(positive))

C21_Witness ==
  /\ pc = "matched"
  /\ top_n = MaxTopN
  /\ Len(matches) = top_n
  /\ matches[1].score > matches[Len(matches)].score
  /\ \E i \in DOMAIN providers :
       /\ ~Returned(providers[i].id)
       /\ ScoreOf(classification, i) > 0
       /\ ScoreOf(classification, i) < matches[Len(matches)].score

\* C22: every returned entry has a score of at least 0.1, and a provider
\* whose score is 0 is not returned.
C22_PositiveScores ==
  pc = "matched" =>
    /\ \A m \in DOMAIN matches : matches[m].score >= 10
    /\ \A i \in DOMAIN providers :
         ScoreOf(classification, i) = 0 => ~Returned(providers[i].id)

C22_Witness ==
  /\ pc = "matched"
  /\ top_n = DefaultTopN
  /\ Len(providers) = 2
  /\ Len(matches) = 1
  /\ classification.data_types # <<>>
  /\ \E i \in DOMAIN providers :
       /\ providers[i].data_types = <<>>
       /\ ~DataTypeSkip(classification, providers[i])
       /\ ScoreOf(classification, i) = 0
       /\ ~Returned(providers[i].id)

\* C23: when the classification has no data types, every provider of the
\* registry scores at least 0.1, and for top_n >= 0 the returned list has
\* top_n entries or, when the registry is smaller, one entry per provider.
C23_NoDataTypesNoFilter ==
  (pc = "matched" /\ classification.data_types = <<>>) =>
    /\ \A i \in DOMAIN providers : ScoreOf(classification, i) >= 10
    /\ top_n >= 0 => Len(matches) = Min(top_n, Len(providers))
    /\ top_n >= Len(providers) =>
         \A i \in DOMAIN providers : Returned(providers[i].id)

C23_Witness ==
  /\ pc = "matched"
  /\ classification.data_types = <<>>
  /\ classification.geography = <<"EU">>
  /\ classification.preferences = <<>>
  /\ Len(providers) = MaxProviders
  /\ top_n = DefaultTopN
  /\ Len(matches) = Len(providers)
  /\ \A m \in DOMAIN matches : matches[m].score = 10

\* The URI of the recommendation resource without a query.
RecommendUri == UriScheme \o NameText("intelligence") \o <<"/">> \o RecommendPath

\* C24: a read of finmcp://intelligence/recommend returns the help text, and a
\* read of finmcp://intelligence/recommend/<q> with a non-empty q returns the
\* recommendation for q with "/" turned into spaces: that text is the query
\* given to the classifier and the one reported as Original Query.
C24_RecommendRouting ==
  LET prefix == RecommendUri \o <<"/">>
      uri == resource.uri
      q == [i \in 1..(Len(uri) - Len(prefix)) |->
              IF uri[Len(prefix) + i] = "/" THEN " " ELSE uri[Len(prefix) + i]]
  IN  /\ uri = RecommendUri =>
           (resource.response.kind = "help" /\ resource.response.text = HelpText)
      /\ (StartsWith(uri, prefix) /\ Len(uri) > Len(prefix)) =>
           /\ resource.response.kind = "recommendation"
           /\ resource.response.query = q
           /\ HasLine(resource.response.text, <<"**Original Query**: ">> \o q)
           /\ resource.response.text = create_provider_recommendation(API_CONFIGS, q)

\* C25: a read of finmcp://fred/<path> requests a URL: the fred base_url
\* followed by the path without leading and trailing slashes, inner slashes
\* as hyphens, and ".html" when the path is neither empty nor "/", and the
\* base_url itself otherwise; no error text is returned before the request.
C25_FredUrlFetched ==
  LET fred == UriScheme \o NameText("fred")
      uri == resource.uri
      path == IF Len(uri) > Len(fred) THEN SubSeq(uri, Len(fred) + 2, Len(uri)) ELSE <<>>
      base == BaseUrlOf("fred")
  IN  (uri = fred \/ StartsWith(uri, fred \o <<"/">>)) =>
        /\ resource.response.kind \in {"documentation", "request_error", "unexpected_error"}
        /\ resource.response.url # <<>>
        /\ resource.response.url =
             (IF path # <<>> /\ path # <<"/">>
                THEN base \o Replace(Strip(path, "/"), "/", "-") \o <<".", "h", "t", "m", "l">>
                ELSE base)

====
